---- MODULE Spec2Model ----
(***************************************************************************)
(* The AirRide supervisor (src/AirRide/Init/src/main.cpp) as a state       *)
(* machine: the service registry, its mutex, the main thread (boot, then   *)
(* the accept / reap loop), the parallel-bucket boot threads, the detached *)
(* restart threads, and the children the supervisor forked.  The second    *)
(* part is Dreamland, the package manager (src/Dreamland/src/main.cpp).    *)
(* The third part is Poyo, the login program (src/Poyo/src/main.c).        *)
(***************************************************************************)
EXTENDS Integers, Sequences, FiniteSets, TLC

VARIABLES
    cfg,            \* the loaded service definitions and the requests clients may send
    services,       \* AirRide::services, dynamic fields: name -> [state, pid, failures]
    services_mutex, \* the thread holding AirRide::services_mutex, or NoThread
    stack,          \* per thread: its activations of start_service_internal, innermost last
    main,           \* main thread: place in run(), locals of the handler, stop_service, reap_zombies
    worker,         \* the detached restart threads made by reap_zombies
    boot,           \* the parallel-bucket threads of start_autostart_services
    proc,           \* every child forked so far, pid = index: "live", "exit0", "exitF", "gone"
    ev,             \* the last observable event (return, fork, signal, response)
    packages,       \* DreamlandHybrid::packages: the catalog in memory, name -> Package
    installed,      \* DreamlandHybrid::installed: the registry in memory, name -> Package
    repo,           \* the package files the Galactica repository serves, name -> Package
    files,          \* the disk: installed.db, packages.db, the index, the files under /
    dl,             \* the dreamland process: its place in the command and the locals alive
    shadow,         \* /etc/shadow: user name -> stored hash (sp_pwdp)
    pwdb,           \* /etc/passwd: user name -> [uid, gid]
    lg,             \* the poyo process: its place in main() and the locals alive
    cred,           \* the poyo process's credentials: real and effective uid and gid, groups
    env,            \* the poyo process's environment: the names that are set
    utmp,           \* the records written to utmp and wtmp
    calls           \* what the poyo process did so far, in order: sleeps, system calls, exit

airride == <<cfg, services, services_mutex, stack, main, worker, boot, proc, ev>>
dreamland == <<packages, installed, repo, files, dl>>
poyo == <<shadow, pwdb, lg, cred, env, utmp, calls>>
vars == <<airride, dreamland, poyo>>

----------------------------------------------------------------------------
(* Bounds of the model. *)

\* forks the kernel grants before fork() only fails (default specification)
MaxForks == 3
\* forks the kernel grants in CapSpec: enough to go beyond the restart cap
CapForks == 11
\* restart threads alive at once
MaxWorkers == 2
\* iterations of wait_for_service's loop kept (the code makes timeout_sec * 10)
WaitPolls == 1
\* iterations of stop_service's poll loop kept (the code makes 50)
StopPolls == 1

\* reap_zombies: `svc.failures < 10`
MaxFailures == 10

----------------------------------------------------------------------------
(* Service definitions (struct Service, static fields). *)

Service(type, requires, after, restart_on_failure, autostart, parallel, tty, foreground) ==
    [type |-> type, requires |-> requires, after |-> after,
     restart_on_failure |-> restart_on_failure, autostart |-> autostart,
     parallel |-> parallel, tty |-> tty, foreground |-> foreground]

\* load_services: the emergency shell every registry holds
shell == Service("simple", <<>>, <<>>, FALSE, FALSE, FALSE, FALSE, TRUE)

\* a getty-like login service on a tty, respawned when it exits
CfgLogin ==
    [defs  |-> [n \in {"login", "shell"} |->
                  IF n = "login"
                  THEN Service("simple", <<>>, <<>>, TRUE, TRUE, FALSE, TRUE, FALSE)
                  ELSE shell],
     order |-> <<"login", "shell">>,
     cmds  |-> {<<"start", "login">>, <<"stop", "login">>, <<"restart", "login">>,
                <<"status", "login">>, <<"list", "">>, <<"bogus", "">>, <<"", "">>,
                <<"start", "nosuch">>, <<"stop", "nosuch">>},
     forks |-> MaxForks]

\* a oneshot and a daemon that requires it, both started in parallel at boot
CfgBoot ==
    [defs  |-> [n \in {"db", "net", "shell"} |->
                  CASE n = "net" -> Service("oneshot", <<>>, <<>>, FALSE, TRUE, TRUE, FALSE, FALSE)
                    [] n = "db"  -> Service("simple", <<"net">>, <<>>, FALSE, TRUE, TRUE, FALSE, FALSE)
                    [] OTHER     -> shell],
     order |-> <<"db", "net", "shell">>,
     cmds  |-> {<<"stop", "db">>},
     forks |-> MaxForks]

\* c requires b requires a, c is also ordered after a; all simple, none
\* started at boot
CfgChain ==
    [defs  |-> [n \in {"a", "b", "c", "shell"} |->
                  CASE n = "b" -> Service("simple", <<"a">>, <<>>, FALSE, FALSE, FALSE, FALSE, FALSE)
                    [] n = "c" -> Service("simple", <<"b">>, <<"a">>, FALSE, FALSE, FALSE, FALSE, FALSE)
                    [] n = "a" -> Service("simple", <<>>, <<>>, FALSE, FALSE, FALSE, FALSE, FALSE)
                    [] OTHER   -> shell],
     order |-> <<"a", "b", "c", "shell">>,
     cmds  |-> {<<"start", "c">>, <<"stop", "b">>},
     forks |-> MaxForks + 1]

\* x requires y and y requires x; z requires itself
CfgCycle ==
    [defs  |-> [n \in {"shell", "x", "y", "z"} |->
                  CASE n = "x" -> Service("simple", <<"y">>, <<>>, FALSE, FALSE, FALSE, FALSE, FALSE)
                    [] n = "y" -> Service("simple", <<"x">>, <<>>, FALSE, FALSE, FALSE, FALSE, FALSE)
                    [] n = "z" -> Service("simple", <<"z">>, <<>>, FALSE, FALSE, FALSE, FALSE, FALSE)
                    [] OTHER   -> shell],
     order |-> <<"shell", "x", "y", "z">>,
     cmds  |-> {<<"start", "x">>, <<"start", "z">>},
     forks |-> MaxForks]

\* p requires q and q requires p, both started in parallel at boot
CfgRing ==
    [defs  |-> [n \in {"p", "q", "shell"} |->
                  CASE n = "p" -> Service("simple", <<"q">>, <<>>, FALSE, TRUE, TRUE, FALSE, FALSE)
                    [] n = "q" -> Service("simple", <<"p">>, <<>>, FALSE, TRUE, TRUE, FALSE, FALSE)
                    [] OTHER   -> shell],
     order |-> <<"p", "q", "shell">>,
     cmds  |-> {<<"start", "p">>},
     forks |-> MaxForks]

\* the login service again, with forks enough to exhaust its restarts
CfgRespawn ==
    [CfgLogin EXCEPT !.cmds = {<<"start", "login">>}, !.forks = CapForks]

Configs == {CfgLogin, CfgBoot, CfgChain, CfgCycle}

\* the registries whose requires graph has a cycle or a self-loop
GraphConfigs == {CfgCycle, CfgRing}

----------------------------------------------------------------------------
(* Threads, frames, events. *)

NoThread == -1
MainThread == 0
Workers == 1 .. MaxWorkers
BootThread(i) == 100 + i
\* one thread id per place in a registry, for the parallel bucket
BootThreads == {BootThread(i) : i \in UNION {DOMAIN c.order : c \in Configs \cup GraphConfigs}}
Threads == {MainThread} \cup Workers \cup BootThreads

\* one activation of start_service_internal(name)
Frame(name) ==
    [name |-> name, pc |-> "lock_enter", i |-> 1, polls |-> 0, pid |-> 0, status |-> FALSE]

NoEv == [kind |-> "none", thread |-> NoThread, name |-> "", val |-> FALSE, pid |-> 0]
Event(kind, t, name, val, pid) ==
    [kind |-> kind, thread |-> t, name |-> name, val |-> val, pid |-> pid]

FreeWorker == [st |-> "free", name |-> ""]

Top(t) == stack[t][Len(stack[t])]
SetTop(t, f) == [stack EXCEPT ![t] = [@ EXCEPT ![Len(@)] = f]]
Push(t, name) == [stack EXCEPT ![t] = Append(@, Frame(name))]

Found(name) == name \in DOMAIN services

\* where an activation goes once `i` requires have been started: the next
\* requires entry, else the first `after` entry, else fork()
AfterRequires(f) ==
    LET d == cfg.defs[f.name]
    IN  IF f.i <= Len(d.requires) THEN [f EXCEPT !.pc = "deps"]
        ELSE IF Len(d.after) > 0 THEN [f EXCEPT !.pc = "lock_wait", !.i = 1, !.polls = 0]
        ELSE [f EXCEPT !.pc = "fork"]

\* where an activation goes once the wait for after[i] is over
AfterWait(f) ==
    LET d == cfg.defs[f.name]
    IN  IF f.i < Len(d.after) THEN [f EXCEPT !.pc = "lock_wait", !.i = f.i + 1, !.polls = 0]
        ELSE [f EXCEPT !.pc = "fork"]

\* the main thread at `pc` with no handler, stop_service or reap_zombies local alive
\* (prev: the service of the request answered last, when that was `stop` and OK)
\* (conns, sent: the connections accepted by this call of
\* handle_control_commands, the responses written to the connection)
Idle(pc) ==
    [pc |-> pc, cmd |-> "", name |-> "", k |-> 0, rpid |-> 0, rstatus |-> FALSE,
     fpid |-> 0, resp |-> "", prev |-> main.prev, conns |-> 0, sent |-> 0]

\* no dreamland process and nothing of it on disk
NoMap == [n \in {} |-> n]
NoFiles == [installed_db |-> <<>>, pkg_db |-> NoMap, pkg_index |-> {}, db |-> {},
            root |-> {}, manifests |-> NoMap]
NoDreamland ==
    /\ packages = NoMap
    /\ installed = NoMap
    /\ repo = NoMap
    /\ files = NoFiles
    /\ dl = [pc |-> "off"]

\* no poyo process
NoCred == [uid |-> 0, euid |-> 0, gid |-> 0, egid |-> 0, groups |-> 0]
NoPoyo ==
    /\ shadow = NoMap
    /\ pwdb = NoMap
    /\ lg = [pc |-> "off"]
    /\ cred = NoCred
    /\ env = {}
    /\ utmp = <<>>
    /\ calls = <<>>

----------------------------------------------------------------------------
(* Initial state: run() after load_services(). *)

Booted(c) ==
    /\ cfg = c
    /\ services = [n \in DOMAIN c.defs |-> [state |-> "stopped", pid |-> 0, failures |-> 0]]
    /\ services_mutex = NoThread
    /\ stack = [t \in Threads |-> <<>>]
    /\ main = [pc |-> "boot", cmd |-> "", name |-> "", k |-> 0, rpid |-> 0,
               rstatus |-> FALSE, fpid |-> 0, resp |-> "", prev |-> "",
               conns |-> 0, sent |-> 0]
    /\ worker = [k \in Workers |-> FreeWorker]
    /\ boot = [i \in 1 .. Len(c.order) |-> "none"]
    /\ proc = <<>>
    /\ ev = NoEv

InitOf(c) == Booted(c) /\ NoDreamland /\ NoPoyo

Init == \E c \in Configs : InitOf(c)

----------------------------------------------------------------------------
(* start_service_internal, one step at a time.  A step that takes the mutex
   is split in two: the acquisition (start_lock) and the critical section,
   which ends by releasing it. *)

\* the lock_guard / lock() the activation is about to take -> the section it guards
LockNext ==
    [lock_enter |-> "enter", lock_depfail |-> "depfail", lock_wait |-> "wait",
     lock_parent |-> "parent", lock_oneshot |-> "oneshot", lock_forkfail |-> "forkfail"]

\* an early return that forgets the services being started
start_skips_only_running(state) == state = "running"

\* an early return that forgets the running services
start_skips_only_starting(state) == state = "starting"

\* lines 251-252: a service that is running or starting is not started again
start_skips(state) == state \in {"running", "starting"}

\* a handler that answers OK whatever start_service returned
MainAfterStart_ok(val) ==
    CASE main.pc = "boot_seq_call"   -> [main EXCEPT !.pc = "boot_seq", !.k = @ + 1]
      [] main.pc = "boot_tty_call"   -> [main EXCEPT !.pc = "boot_tty", !.k = @ + 1]
      [] main.pc = "boot_shell_call" -> Idle("ctl")
      [] OTHER                       -> [main EXCEPT !.pc = "ctl_write", !.resp = "OK"]

\* the continuation of the thread's top-level code when its outermost
\* start_service_internal returns `val`
MainAfterStart(val) ==
    CASE main.pc = "boot_seq_call"   -> [main EXCEPT !.pc = "boot_seq", !.k = @ + 1]
      [] main.pc = "boot_tty_call"   -> [main EXCEPT !.pc = "boot_tty", !.k = @ + 1]
      [] main.pc = "boot_shell_call" -> Idle("ctl")
      [] OTHER                       -> [main EXCEPT !.pc = "ctl_write",
                                                     !.resp = IF val THEN "OK" ELSE "FAILED"]

\* a return after which the caller goes on with its next requires entry
\* whatever the value
Return_goes_on(t, val, svcs) ==
    LET f    == Top(t)
        rest == SubSeq(stack[t], 1, Len(stack[t]) - 1)
    IN  /\ services' = svcs
        /\ services_mutex' = IF services_mutex = t THEN NoThread ELSE services_mutex
        /\ ev' = Event("start_ret", t, f.name, val, 0)
        /\ UNCHANGED <<cfg, proc, dreamland, poyo>>
        /\ IF rest # <<>>
           THEN LET c == rest[Len(rest)]
                IN  /\ stack' = [stack EXCEPT ![t] = [rest EXCEPT ![Len(rest)] =
                                                        AfterRequires([c EXCEPT !.i = c.i + 1])]]
                    /\ UNCHANGED <<main, worker, boot>>
           ELSE /\ stack' = [stack EXCEPT ![t] = <<>>]
                /\ main' = IF t = MainThread THEN MainAfterStart(val) ELSE main
                /\ UNCHANGED <<worker, boot>>

\* `return val` of the innermost activation of thread t, with the registry
\* left as `svcs`; the mutex (held or not) is free afterwards
Return(t, val, svcs) ==
    LET f    == Top(t)
        rest == SubSeq(stack[t], 1, Len(stack[t]) - 1)
    IN  /\ services' = svcs
        /\ services_mutex' = IF services_mutex = t THEN NoThread ELSE services_mutex
        /\ ev' = Event("start_ret", t, f.name, val, 0)
        /\ UNCHANGED <<cfg, proc, dreamland, poyo>>
        /\ IF rest # <<>>
           THEN LET c  == rest[Len(rest)]
                    c2 == IF val THEN AfterRequires([c EXCEPT !.i = c.i + 1])
                                 ELSE [c EXCEPT !.pc = "lock_depfail"]
                IN  /\ stack' = [stack EXCEPT ![t] = [rest EXCEPT ![Len(rest)] = c2]]
                    /\ UNCHANGED <<main, worker, boot>>
           ELSE /\ stack' = [stack EXCEPT ![t] = <<>>]
                /\ main' = IF t = MainThread THEN MainAfterStart(val) ELSE main
                /\ worker' = IF t \in Workers THEN [worker EXCEPT ![t] = FreeWorker] ELSE worker
                /\ boot' = IF t \in BootThreads THEN [boot EXCEPT ![t - 100] = "done"] ELSE boot

Running(t) == stack[t] # <<>>

\* std::lock_guard / services_mutex.lock(): blocks until the mutex is free
start_lock(t) ==
    /\ Running(t)
    /\ Top(t).pc \in DOMAIN LockNext
    /\ services_mutex = NoThread
    /\ services_mutex' = t
    /\ stack' = SetTop(t, [Top(t) EXCEPT !.pc = LockNext[Top(t).pc]])
    /\ ev' = NoEv
    /\ UNCHANGED <<cfg, services, main, worker, boot, proc, dreamland, poyo>>

\* lines 242-255: look the service up, return early, or mark it starting
start_enter(t) ==
    /\ Running(t)
    /\ Top(t).pc = "enter"
    /\ LET f == Top(t)
       IN  IF ~Found(f.name) THEN Return(t, FALSE, services)
           ELSE IF start_skips(services[f.name].state) THEN Return(t, TRUE, services)
           ELSE /\ services' = [services EXCEPT ![f.name].state = "starting"]
                /\ services_mutex' = NoThread
                /\ stack' = SetTop(t, AfterRequires([f EXCEPT !.i = 1]))
                /\ ev' = NoEv
                /\ UNCHANGED <<main, worker, boot>>
    /\ UNCHANGED <<cfg, proc, dreamland, poyo>>

\* lines 258-259: start_service(dep) for the next requires entry
start_requires(t) ==
    /\ Running(t)
    /\ Top(t).pc = "deps"
    /\ stack' = Push(t, cfg.defs[Top(t).name].requires[Top(t).i])
    /\ ev' = NoEv
    /\ UNCHANGED <<cfg, services, services_mutex, main, worker, boot, proc, dreamland, poyo>>

\* lines 260-262: a required service failed
start_depfail(t) ==
    /\ Running(t)
    /\ Top(t).pc = "depfail"
    /\ Return(t, FALSE, [services EXCEPT ![Top(t).name].state = "failed"])
    /\ UNCHANGED <<cfg, proc, dreamland, poyo>>

\* wait_for_service, lines 231-233: the states that end the wait
wait_is_over(name) ==
    /\ Found(name)
    /\ \/ services[name].state = "running"
       \/ services[name].state = "failed"
       \/ cfg.defs[name].type = "oneshot" /\ services[name].state = "stopped"

\* a wait that only a terminal state of after[i] ends
start_wait_unbounded(t) ==
    /\ Running(t)
    /\ Top(t).pc = "wait"
    /\ LET f   == Top(t)
           dep == cfg.defs[f.name].after[f.i]
       IN  stack' = SetTop(t,
               IF wait_is_over(dep)
               THEN AfterWait(f)
               ELSE [f EXCEPT !.pc = "lock_wait"])
    /\ services_mutex' = NoThread
    /\ ev' = NoEv
    /\ UNCHANGED <<cfg, services, main, worker, boot, proc, dreamland, poyo>>

\* lines 266-269 and wait_for_service: one look at after[i] under the mutex,
\* then usleep; the wait ends on a terminal state or with the last poll
start_wait(t) ==
    /\ Running(t)
    /\ Top(t).pc = "wait"
    /\ LET f   == Top(t)
           dep == cfg.defs[f.name].after[f.i]
       IN  stack' = SetTop(t,
               IF wait_is_over(dep) \/ f.polls + 1 >= WaitPolls
               THEN AfterWait(f)
               ELSE [f EXCEPT !.pc = "lock_wait", !.polls = f.polls + 1])
    /\ services_mutex' = NoThread
    /\ ev' = NoEv
    /\ UNCHANGED <<cfg, services, main, worker, boot, proc, dreamland, poyo>>

\* line 277: fork() makes a child, or fails
start_fork(t) ==
    /\ Running(t)
    /\ Top(t).pc = "fork"
    /\ \/ /\ Len(proc) < cfg.forks
          /\ proc' = Append(proc, "live")
          /\ stack' = SetTop(t, [Top(t) EXCEPT !.pc = "lock_parent", !.pid = Len(proc) + 1])
          /\ ev' = Event("fork", t, Top(t).name, TRUE, Len(proc) + 1)
       \/ /\ proc' = proc
          /\ stack' = SetTop(t, [Top(t) EXCEPT !.pc = "lock_forkfail"])
          /\ ev' = Event("fork", t, Top(t).name, FALSE, 0)
    /\ UNCHANGED <<cfg, services, services_mutex, main, worker, boot, dreamland, poyo>>

\* lines 330-332: the parent records the child
start_record(rec, pid) == [rec EXCEPT !.pid = pid, !.state = "running"]

\* a parent that waits for its oneshot child without the unlock() of line 336
start_parent_keeps_mutex(t) ==
    /\ Running(t)
    /\ Top(t).pc = "parent"
    /\ LET f    == Top(t)
           svcs == [services EXCEPT ![f.name] = start_record(@, f.pid)]
       IN  IF cfg.defs[f.name].type = "oneshot"
           THEN /\ services' = svcs
                /\ services_mutex' = services_mutex
                /\ stack' = SetTop(t, [f EXCEPT !.pc = "oneshot_wait"])
                /\ ev' = NoEv
                /\ UNCHANGED <<main, worker, boot>>
           ELSE Return(t, TRUE, svcs)
    /\ UNCHANGED <<cfg, proc, dreamland, poyo>>

\* lines 329-336 and 352: record the child; a oneshot drops the mutex and waits
start_parent(t) ==
    /\ Running(t)
    /\ Top(t).pc = "parent"
    /\ LET f    == Top(t)
           svcs == [services EXCEPT ![f.name] = start_record(@, f.pid)]
       IN  IF cfg.defs[f.name].type = "oneshot"
           THEN /\ services' = svcs
                /\ services_mutex' = NoThread
                /\ stack' = SetTop(t, [f EXCEPT !.pc = "oneshot_wait"])
                /\ ev' = NoEv
                /\ UNCHANGED <<main, worker, boot>>
           ELSE Return(t, TRUE, svcs)
    /\ UNCHANGED <<cfg, proc, dreamland, poyo>>

\* lines 338-339: waitpid(pid, &status, 0).  It collects the child once it
\* has exited; when another waiter already collected it the call fails and
\* `status` stays uninitialized: either value
start_waitpid(t) ==
    /\ Running(t)
    /\ Top(t).pc = "oneshot_wait"
    /\ LET f == Top(t)
       IN  \/ /\ proc[f.pid] \in {"exit0", "exitF"}
              /\ proc' = [proc EXCEPT ![f.pid] = "gone"]
              /\ stack' = SetTop(t, [f EXCEPT !.pc = "lock_oneshot",
                                              !.status = (proc[f.pid] = "exit0")])
              /\ ev' = Event("reaped", t, f.name, proc[f.pid] = "exit0", f.pid)
           \/ /\ proc[f.pid] = "gone"
              /\ proc' = proc
              /\ \E b \in BOOLEAN :
                    stack' = SetTop(t, [f EXCEPT !.pc = "lock_oneshot", !.status = b])
              /\ ev' = NoEv
    /\ UNCHANGED <<cfg, services, services_mutex, main, worker, boot, dreamland, poyo>>

\* lines 342-347: the record of a oneshot that has completed
start_completed(rec, success) ==
    [rec EXCEPT !.pid = 0, !.state = IF success THEN "stopped" ELSE "failed"]

\* lines 341-351: the oneshot has completed
start_oneshot(t) ==
    /\ Running(t)
    /\ Top(t).pc = "oneshot"
    /\ LET f == Top(t)
       IN  Return(t, f.status, [services EXCEPT ![f.name] = start_completed(@, f.status)])
    /\ UNCHANGED <<cfg, proc, dreamland, poyo>>

\* lines 355-357: fork() failed
start_forkfail(t) ==
    /\ Running(t)
    /\ Top(t).pc = "forkfail"
    /\ Return(t, FALSE, [services EXCEPT ![Top(t).name].state = "failed"])
    /\ UNCHANGED <<cfg, proc, dreamland, poyo>>

----------------------------------------------------------------------------
(* stop_service, run by the main thread for `stop` and `restart`. *)

Self == MainThread

\* what follows stop_service in handle_control_commands: the response of
\* `stop`, or (restart) usleep and start_service
StopReturn(val, svcs) ==
    /\ UNCHANGED <<cfg, worker, boot, dreamland, poyo>>
    /\ services' = svcs
    /\ services_mutex' = NoThread
    /\ ev' = Event("stop_ret", Self, main.name, val,
                   IF main.fpid > 0 \/ ~Found(main.name) THEN main.fpid
                   ELSE services[main.name].pid)
    /\ IF main.cmd = "restart"
       THEN /\ stack' = Push(Self, main.name)
            /\ main' = [main EXCEPT !.pc = "ctl_start", !.fpid = 0]
       ELSE /\ stack' = stack
            /\ main' = [main EXCEPT !.pc = "ctl_write",
                                    !.resp = IF val THEN "OK" ELSE "FAILED"]

\* line 365: std::lock_guard; line 386: services_mutex.lock()
stop_lock ==
    /\ main.pc \in {"stop_lock", "stop_relock"}
    /\ services_mutex = NoThread
    /\ services_mutex' = Self
    /\ main' = [main EXCEPT !.pc = IF main.pc = "stop_lock" THEN "stop_check" ELSE "stop_kill"]
    /\ ev' = NoEv
    /\ UNCHANGED <<cfg, services, stack, worker, boot, proc, dreamland, poyo>>

\* line 370: only a running service is stopped
stop_skips(state) == state # "running"

\* lines 366-378: look up, return early, or mark stopping, SIGTERM, unlock
stop_check ==
    /\ main.pc = "stop_check"
    /\ LET n == main.name
       IN  IF ~Found(n) THEN StopReturn(FALSE, services)
           ELSE IF stop_skips(services[n].state) THEN StopReturn(TRUE, services)
           ELSE IF services[n].pid > 0
                THEN /\ services' = [services EXCEPT ![n].state = "stopping"]
                     /\ services_mutex' = NoThread
                     /\ main' = [main EXCEPT !.pc = "stop_poll", !.k = 0, !.fpid = services[n].pid]
                     /\ ev' = Event("SIGTERM", Self, n, proc[services[n].pid] # "gone", services[n].pid)
                     /\ stack' = stack
                ELSE StopReturn(TRUE, [services EXCEPT ![n].state = "stopped"])
    /\ UNCHANGED <<cfg, worker, boot, proc, dreamland, poyo>>

\* lines 379-385: usleep, waitpid(svc.pid, &status, WNOHANG); leave the loop
\* when it collected the child or after the last iteration
stop_poll ==
    /\ main.pc = "stop_poll"
    /\ LET p == services[main.name].pid
       IN  IF p > 0 /\ proc[p] \in {"exit0", "exitF"}
           THEN /\ proc' = [proc EXCEPT ![p] = "gone"]
                /\ main' = [main EXCEPT !.pc = "stop_relock", !.k = 0]
                /\ ev' = Event("reaped", Self, main.name, proc[p] = "exit0", p)
           ELSE /\ proc' = proc
                /\ main' = IF main.k + 1 >= StopPolls
                           THEN [main EXCEPT !.pc = "stop_relock", !.k = 0]
                           ELSE [main EXCEPT !.k = main.k + 1]
                /\ ev' = NoEv
    /\ UNCHANGED <<cfg, services, services_mutex, stack, worker, boot, dreamland, poyo>>

\* lines 388-389: kill(svc.pid, SIGKILL) when the record still holds a pid
stop_kill ==
    /\ main.pc = "stop_kill"
    /\ LET p == services[main.name].pid
       IN  IF p > 0
           THEN /\ proc' = [proc EXCEPT ![p] = IF @ = "live" THEN "exitF" ELSE @]
                /\ ev' = Event("SIGKILL", Self, main.name, proc[p] # "gone", p)
           ELSE /\ proc' = proc
                /\ ev' = NoEv
    /\ main' = [main EXCEPT !.pc = "stop_wait"]
    /\ UNCHANGED <<cfg, services, services_mutex, stack, worker, boot, dreamland, poyo>>

\* lines 392-395: the record of a stopped service
stop_record(rec) == [rec EXCEPT !.pid = 0, !.state = "stopped"]

\* lines 390-396: waitpid(svc.pid, nullptr, 0), clear the pid, state stopped
stop_wait ==
    /\ main.pc = "stop_wait"
    /\ LET p == services[main.name].pid
       IN  /\ p > 0 => proc[p] # "live"
           /\ proc' = IF p > 0 THEN [proc EXCEPT ![p] = "gone"] ELSE proc
    /\ StopReturn(TRUE, [services EXCEPT ![main.name] = stop_record(@)])
    /\ UNCHANGED <<cfg, worker, boot, dreamland, poyo>>

stop_service ==
    \/ stop_lock
    \/ stop_check
    \/ stop_poll
    \/ stop_kill
    \/ stop_wait

----------------------------------------------------------------------------
(* handle_control_commands: at most one connection per turn of the loop. *)

\* line 467: accept() finds no connection
ctl_idle ==
    /\ main.pc = "ctl"
    /\ main' = [main EXCEPT !.pc = "reap"]
    /\ ev' = NoEv
    /\ UNCHANGED <<cfg, services, services_mutex, stack, worker, boot, proc, dreamland, poyo>>

\* lines 466-487: accept, read, parse `verb name`, dispatch.  The request
\* <<"", "">> is a client that sent no byte (read() returns 0); "bogus" is
\* any text whose first word is no verb.
ctl_accept ==
    /\ main.pc = "ctl"
    /\ \E c \in cfg.cmds :
          LET m == [main EXCEPT !.cmd = c[1], !.name = c[2], !.conns = @ + 1]
          IN  CASE c[1] = "" ->
                     \* line 471: `n > 0` fails, straight to close()
                     /\ main' = [m EXCEPT !.pc = "ctl_close"]
                     /\ stack' = stack
                     /\ ev' = NoEv
                [] c[1] = "start" ->
                     /\ main' = [m EXCEPT !.pc = "ctl_start"]
                     /\ stack' = Push(Self, c[2])
                     /\ ev' = NoEv
                [] c[1] \in {"stop", "restart"} ->
                     /\ main' = [m EXCEPT !.pc = "stop_lock"]
                     /\ stack' = stack
                     /\ ev' = NoEv
                [] c[1] \in {"status", "list"} ->
                     /\ main' = [m EXCEPT !.pc = "query_lock"]
                     /\ stack' = stack
                     /\ ev' = NoEv
                [] OTHER ->
                     /\ main' = [m EXCEPT !.pc = "ctl_write", !.resp = "Unknown command"]
                     /\ stack' = stack
                     /\ ev' = NoEv
    /\ UNCHANGED <<cfg, services, services_mutex, worker, boot, proc, dreamland, poyo>>

\* get_service_status / list_services: std::lock_guard
query_lock ==
    /\ main.pc = "query_lock"
    /\ services_mutex = NoThread
    /\ services_mutex' = Self
    /\ main' = [main EXCEPT !.pc = "query"]
    /\ ev' = NoEv
    /\ UNCHANGED <<cfg, services, stack, worker, boot, proc, dreamland, poyo>>

\* get_service_status (lines 399-420) and list_services (lines 422-440)
query ==
    /\ main.pc = "query"
    /\ services_mutex' = NoThread
    /\ main' = [main EXCEPT !.pc = "ctl_write",
                            !.resp = IF main.cmd = "list" THEN "Services:"
                                     ELSE IF Found(main.name)
                                          THEN "State: " \o services[main.name].state
                                          ELSE "Service not found"]
    /\ ev' = NoEv
    /\ UNCHANGED <<cfg, services, stack, worker, boot, proc, dreamland, poyo>>

\* line 489: write the response
ctl_write ==
    /\ main.pc = "ctl_write"
    /\ main' = [main EXCEPT !.pc = "ctl_close", !.sent = @ + 1]
    /\ ev' = Event("response", Self, main.resp, TRUE, 0)
    /\ UNCHANGED <<cfg, services, services_mutex, stack, worker, boot, proc, dreamland, poyo>>

\* a handler that goes back to accept() for the next connection
ctl_returns_to_accept == [main EXCEPT !.pc = "ctl", !.sent = 0]

\* lines 491-492: the main thread once handle_control_commands has returned
ctl_returns ==
    [Idle("reap") EXCEPT
        !.prev = IF main.cmd = "stop" /\ main.resp = "OK" THEN main.name ELSE ""]

\* line 491: close the connection, return to run()
ctl_close ==
    /\ main.pc = "ctl_close"
    /\ main' = ctl_returns
    /\ ev' = Event("closed", Self, main.cmd, main.sent > 0, 0)
    /\ UNCHANGED <<cfg, services, services_mutex, stack, worker, boot, proc, dreamland, poyo>>

handle_control_commands ==
    \/ ctl_idle
    \/ ctl_accept
    \/ query_lock
    \/ query
    \/ ctl_write
    \/ ctl_close

----------------------------------------------------------------------------
(* reap_zombies, and the restart threads it detaches. *)

FreeSlots == {k \in Workers : worker[k].st = "free"}
LeastFree == CHOOSE k \in FreeSlots : \A j \in FreeSlots : k <= j

Zombies == {p \in 1 .. Len(proc) : proc[p] \in {"exit0", "exitF"}}

\* line 497: waitpid(-1, &status, WNOHANG) collects some exited child.  (A
\* restart thread must be available for the restart the reap may schedule.)
reap_waitpid ==
    /\ main.pc = "reap"
    /\ FreeSlots # {}
    /\ \E p \in Zombies :
          /\ proc' = [proc EXCEPT ![p] = "gone"]
          /\ main' = [main EXCEPT !.pc = "reap_lock", !.rpid = p, !.rstatus = (proc[p] = "exit0")]
          /\ ev' = Event("reaped", Self, "", proc[p] = "exit0", p)
    /\ UNCHANGED <<cfg, services, services_mutex, stack, worker, boot, dreamland, poyo>>

\* line 497: nothing to collect; line 604: usleep, next turn of the loop
reap_done ==
    /\ main.pc = "reap"
    /\ Zombies = {}
    /\ main' = [main EXCEPT !.pc = "ctl"]
    /\ ev' = NoEv
    /\ UNCHANGED <<cfg, services, services_mutex, stack, worker, boot, proc, dreamland, poyo>>

\* line 498: std::lock_guard
reap_lock ==
    /\ main.pc = "reap_lock"
    /\ services_mutex = NoThread
    /\ services_mutex' = Self
    /\ main' = [main EXCEPT !.pc = "reap_update"]
    /\ ev' = NoEv
    /\ UNCHANGED <<cfg, services, stack, worker, boot, proc, dreamland, poyo>>

\* lines 499-500: the first service, in map order, whose record holds the pid
Owner(pid) ==
    LET hits == {i \in 1 .. Len(cfg.order) : services[cfg.order[i]].pid = pid}
    IN  IF hits = {} THEN ""
        ELSE cfg.order[CHOOSE i \in hits : \A j \in hits : i <= j]

\* a restart policy without the cap
reap_restarts_always(def, rec) == def.restart_on_failure

\* line 508: the restart policy
reap_restarts(def, rec) == def.restart_on_failure /\ rec.failures < MaxFailures

\* a reap that records the exit but forgets `svc.pid = 0`
reap_record_keeps_pid(def, rec, success) ==
    [state    |-> IF success THEN "stopped" ELSE "failed",
     pid      |-> rec.pid,
     failures |-> IF def.restart_on_failure /\ rec.failures < MaxFailures
                  THEN rec.failures + 1 ELSE rec.failures]

\* lines 501-503 and 509: the record after the reap
reap_record(def, rec, success) ==
    [state    |-> IF success THEN "stopped" ELSE "failed",
     pid      |-> 0,
     failures |-> IF reap_restarts(def, rec) THEN rec.failures + 1 ELSE rec.failures]

\* lines 499-519: update the owner's record, detach a restart thread
reap_update ==
    /\ main.pc = "reap_update"
    /\ LET n == Owner(main.rpid)
       IN  IF n = ""
           THEN /\ UNCHANGED <<services, worker>>
                /\ ev' = NoEv
           ELSE /\ services' = [services EXCEPT ![n] = reap_record(cfg.defs[n], @, main.rstatus)]
                /\ IF reap_restarts(cfg.defs[n], services[n])
                   THEN /\ worker' = [worker EXCEPT ![LeastFree] = [st |-> "sleep", name |-> n]]
                        /\ ev' = Event("restart_scheduled", Self, n, main.rstatus, main.rpid)
                   ELSE /\ worker' = worker
                        /\ ev' = Event("no_restart", Self, n, main.rstatus, main.rpid)
    /\ services_mutex' = NoThread
    /\ main' = Idle("reap")
    /\ UNCHANGED <<cfg, stack, boot, proc, dreamland, poyo>>

reap_zombies ==
    \/ reap_waitpid
    \/ reap_done
    \/ reap_lock
    \/ reap_update

\* lines 512-515: sleep(delay) is over; start_service(svc_name)
restart_thread(k) ==
    /\ worker[k].st = "sleep"
    /\ worker' = [worker EXCEPT ![k].st = "run"]
    /\ stack' = Push(k, worker[k].name)
    /\ ev' = NoEv
    /\ UNCHANGED <<cfg, services, services_mutex, main, boot, proc, dreamland, poyo>>

----------------------------------------------------------------------------
(* start_autostart_services. *)

IsTty(n) == cfg.defs[n].tty \/ cfg.defs[n].foreground

\* lines 532-543: the three buckets, in map order
tty_services == SelectSeq(cfg.order, LAMBDA n : cfg.defs[n].autostart /\ IsTty(n))
parallel_services ==
    SelectSeq(cfg.order, LAMBDA n : cfg.defs[n].autostart /\ ~IsTty(n) /\ cfg.defs[n].parallel)
sequential_services ==
    SelectSeq(cfg.order, LAMBDA n : cfg.defs[n].autostart /\ ~IsTty(n) /\ ~cfg.defs[n].parallel)

InSeq(n, q) == \E i \in 1 .. Len(q) : q[i] = n

\* lines 547-552: one thread per parallel-bucket service
boot_threads ==
    /\ main.pc = "boot"
    /\ boot' = [i \in 1 .. Len(cfg.order) |->
                  IF InSeq(cfg.order[i], parallel_services) THEN "run" ELSE "none"]
    /\ stack' = [t \in DOMAIN stack |->
                  IF \E i \in DOMAIN cfg.order :
                         t = BootThread(i) /\ InSeq(cfg.order[i], parallel_services)
                  THEN <<Frame(cfg.order[t - 100])>> ELSE stack[t]]
    /\ main' = [main EXCEPT !.pc = "boot_seq", !.k = 1]
    /\ ev' = NoEv
    /\ UNCHANGED <<cfg, services, services_mutex, worker, proc, dreamland, poyo>>

\* lines 555-557: the sequential bucket, one start after the other
boot_sequential ==
    /\ main.pc = "boot_seq"
    /\ IF main.k <= Len(sequential_services)
       THEN /\ stack' = Push(Self, sequential_services[main.k])
            /\ main' = [main EXCEPT !.pc = "boot_seq_call"]
       ELSE /\ stack' = stack
            /\ main' = [main EXCEPT !.pc = "boot_join"]
    /\ ev' = NoEv
    /\ UNCHANGED <<cfg, services, services_mutex, worker, boot, proc, dreamland, poyo>>

\* lines 560-568: join every parallel thread, usleep, clear_console
boot_join ==
    /\ main.pc = "boot_join"
    /\ \A i \in DOMAIN boot : boot[i] # "run"
    /\ main' = [main EXCEPT !.pc = "boot_tty", !.k = 1]
    /\ ev' = NoEv
    /\ UNCHANGED <<cfg, services, services_mutex, stack, worker, boot, proc, dreamland, poyo>>

\* lines 571-578: the tty bucket last, or the emergency shell when it is empty
boot_tty ==
    /\ main.pc = "boot_tty"
    /\ IF tty_services = <<>>
       THEN /\ stack' = Push(Self, "shell")
            /\ main' = [main EXCEPT !.pc = "boot_shell_call"]
       ELSE IF main.k <= Len(tty_services)
       THEN /\ stack' = Push(Self, tty_services[main.k])
            /\ main' = [main EXCEPT !.pc = "boot_tty_call"]
       ELSE /\ stack' = stack
            /\ main' = Idle("ctl")
    /\ ev' = NoEv
    /\ UNCHANGED <<cfg, services, services_mutex, worker, boot, proc, dreamland, poyo>>

start_autostart_services ==
    \/ boot_threads
    \/ boot_sequential
    \/ boot_join
    \/ boot_tty

----------------------------------------------------------------------------
(* The children. *)

\* a child exits (status 0) or fails (non-zero status, exec failure 127, a signal)
child_exit ==
    /\ \E p \in 1 .. Len(proc) :
          /\ proc[p] = "live"
          /\ \E st \in {"exit0", "exitF"} : proc' = [proc EXCEPT ![p] = st]
    /\ ev' = NoEv
    /\ UNCHANGED <<cfg, services, services_mutex, stack, main, worker, boot, dreamland, poyo>>

----------------------------------------------------------------------------

Next ==
    \/ \E t \in Threads : start_lock(t)
    \/ \E t \in Threads : start_enter(t)
    \/ \E t \in Threads : start_requires(t)
    \/ \E t \in Threads : start_depfail(t)
    \/ \E t \in Threads : start_wait(t)
    \/ \E t \in Threads : start_fork(t)
    \/ \E t \in Threads : start_parent(t)
    \/ \E t \in Threads : start_waitpid(t)
    \/ \E t \in Threads : start_oneshot(t)
    \/ \E t \in Threads : start_forkfail(t)
    \/ stop_service
    \/ handle_control_commands
    \/ reap_zombies
    \/ \E k \in Workers : restart_thread(k)
    \/ start_autostart_services
    \/ child_exit

Spec == Init /\ [][Next]_vars

\* the steps of thread t inside start_service_internal, the lock apart
start_step(t) ==
    \/ start_enter(t)
    \/ start_requires(t)
    \/ start_depfail(t)
    \/ start_wait(t)
    \/ start_fork(t)
    \/ start_parent(t)
    \/ start_waitpid(t)
    \/ start_oneshot(t)
    \/ start_forkfail(t)

\* Scheduling: a thread that can run does run; a thread blocked on the mutex
\* gets it when it is free again and again (every other thread sleeps with
\* the mutex released: usleep in run(), sleep in the restart threads); the
\* children of the supervisor exit.
Fairness ==
    /\ \A t \in Threads : WF_vars(start_step(t)) /\ SF_vars(start_lock(t))
    /\ WF_vars(stop_service \/ handle_control_commands \/ reap_zombies
                  \/ start_autostart_services)
    /\ WF_vars(child_exit)

\* The supervisor on the registries of GraphConfigs, while the children it
\* forked stay alive (reap_zombies finds nothing to collect).  The registries
\* hold no oneshot, no `after` and no restart_on_failure, and the clients
\* only send `start`: the other steps of Next left out are never enabled.
GraphInit == \E c \in GraphConfigs : InitOf(c)

GraphNext ==
    \/ \E t \in Threads : start_lock(t)
    \/ \E t \in Threads : start_enter(t)
    \/ \E t \in Threads : start_requires(t)
    \/ \E t \in Threads : start_depfail(t)
    \/ \E t \in Threads : start_fork(t)
    \/ \E t \in Threads : start_parent(t)
    \/ \E t \in Threads : start_forkfail(t)
    \/ ctl_idle
    \/ ctl_accept
    \/ ctl_write
    \/ ctl_close
    \/ reap_done
    \/ start_autostart_services

GraphSpec == GraphInit /\ [][GraphNext]_vars /\ Fairness

\* The supervisor on the registry of CfgRespawn: one simple service, no
\* requires and no `after`, and the clients only send `start`, so the steps
\* of Next left out here are never enabled.
CapInit == InitOf(CfgRespawn)

CapNext ==
    \/ \E t \in Threads : start_lock(t)
    \/ \E t \in Threads : start_enter(t)
    \/ \E t \in Threads : start_fork(t)
    \/ \E t \in Threads : start_parent(t)
    \/ \E t \in Threads : start_forkfail(t)
    \/ ctl_idle
    \/ ctl_accept
    \/ ctl_write
    \/ ctl_close
    \/ reap_zombies
    \/ \E k \in Workers : restart_thread(k)
    \/ start_autostart_services
    \/ child_exit

CapSpec == CapInit /\ [][CapNext]_vars

\* The supervisor on the registries of Configs and on one more, whose
\* services have two requires entries: w requires the oneshot o and then a,
\* u requires a name the registry does not hold and then a.
CfgNeeds ==
    [defs  |-> [n \in {"a", "o", "shell", "u", "w"} |->
                  CASE n = "a" -> Service("simple", <<>>, <<>>, FALSE, FALSE, FALSE, FALSE, FALSE)
                    [] n = "o" -> Service("oneshot", <<>>, <<>>, FALSE, FALSE, FALSE, FALSE, FALSE)
                    [] n = "u" -> Service("simple", <<"nosuch", "a">>, <<>>, FALSE, FALSE, FALSE, FALSE, FALSE)
                    [] n = "w" -> Service("simple", <<"o", "a">>, <<>>, FALSE, FALSE, FALSE, FALSE, FALSE)
                    [] OTHER   -> shell],
     order |-> <<"a", "o", "shell", "u", "w">>,
     cmds  |-> {<<"start", "u">>, <<"start", "w">>},
     forks |-> MaxForks]

NeedsInit == \E c \in Configs \cup {CfgNeeds} : InitOf(c)
NeedsSpec == NeedsInit /\ [][Next]_vars

\* The supervisor on a registry whose `after` lists hold a cycle (p after q,
\* q after p), a name the registry does not hold and a service ordered after
\* itself, while the children it forked stay alive.  The registry holds no
\* requires, no oneshot and no restart_on_failure, and the clients only send
\* `start`: the other steps of Next left out are never enabled.
CfgAfter ==
    [defs  |-> [n \in {"p", "q", "s", "shell"} |->
                  CASE n = "p" -> Service("simple", <<>>, <<"q">>, FALSE, TRUE, TRUE, FALSE, FALSE)
                    [] n = "q" -> Service("simple", <<>>, <<"p", "nosuch">>, FALSE, TRUE, TRUE, FALSE, FALSE)
                    [] n = "s" -> Service("simple", <<>>, <<"s">>, FALSE, FALSE, FALSE, FALSE, FALSE)
                    [] OTHER   -> shell],
     order |-> <<"p", "q", "s", "shell">>,
     cmds  |-> {<<"start", "s">>, <<"start", "p">>},
     forks |-> MaxForks]

AfterNext ==
    \/ \E t \in Threads : start_lock(t)
    \/ \E t \in Threads : start_enter(t)
    \/ \E t \in Threads : start_wait(t)
    \/ \E t \in Threads : start_fork(t)
    \/ \E t \in Threads : start_parent(t)
    \/ \E t \in Threads : start_forkfail(t)
    \/ ctl_idle
    \/ ctl_accept
    \/ ctl_write
    \/ ctl_close
    \/ reap_done
    \/ start_autostart_services

AfterSpec == InitOf(CfgAfter) /\ [][AfterNext]_vars /\ Fairness

\* The supervisor on a registry with one oneshot service that the clients
\* start and query, under the scheduling of Fairness but with children that
\* exit or not as they please.  The registry holds no requires, no `after`
\* and no restart_on_failure and the clients send no `stop`: the other steps
\* of Next left out are never enabled.
CfgHang ==
    [defs  |-> [n \in {"o", "shell"} |->
                  IF n = "o"
                  THEN Service("oneshot", <<>>, <<>>, FALSE, FALSE, FALSE, FALSE, FALSE)
                  ELSE shell],
     order |-> <<"o", "shell">>,
     cmds  |-> {<<"start", "o">>, <<"status", "o">>},
     forks |-> MaxForks]

HangNext ==
    \/ \E t \in Threads : start_lock(t)
    \/ \E t \in Threads : start_enter(t)
    \/ \E t \in Threads : start_fork(t)
    \/ \E t \in Threads : start_parent(t)
    \/ \E t \in Threads : start_waitpid(t)
    \/ \E t \in Threads : start_oneshot(t)
    \/ \E t \in Threads : start_forkfail(t)
    \/ handle_control_commands
    \/ reap_zombies
    \/ start_autostart_services
    \/ child_exit

Scheduling ==
    /\ \A t \in Threads : WF_vars(start_step(t)) /\ SF_vars(start_lock(t))
    /\ WF_vars(handle_control_commands \/ reap_zombies \/ start_autostart_services)

HangSpec == InitOf(CfgHang) /\ [][HangNext]_vars /\ Scheduling

\* The supervisor on a registry where every path that takes the mutex is
\* walked: the oneshot o and the daemon d that requires it and is ordered
\* after it are started by parallel boot threads, d is restarted when it
\* exits, and the clients stop and query d.  The children exit.
CfgMutex ==
    [defs  |-> [n \in {"d", "o", "shell"} |->
                  CASE n = "o" -> Service("oneshot", <<>>, <<>>, FALSE, TRUE, TRUE, FALSE, FALSE)
                    [] n = "d" -> Service("simple", <<"o">>, <<"o">>, TRUE, TRUE, TRUE, FALSE, FALSE)
                    [] OTHER   -> shell],
     order |-> <<"d", "o", "shell">>,
     cmds  |-> {<<"stop", "d">>, <<"status", "d">>},
     forks |-> MaxForks]

MutexSpec == InitOf(CfgMutex) /\ [][Next]_vars /\ Fairness

\* The supervisor on the registries of Configs and on one more, where the
\* sequential-bucket service motd requires the tty-bucket service getty.
CfgGetty ==
    [defs  |-> [n \in {"getty", "motd", "shell"} |->
                  CASE n = "getty" -> Service("simple", <<>>, <<>>, FALSE, TRUE, FALSE, TRUE, FALSE)
                    [] n = "motd"  -> Service("simple", <<"getty">>, <<>>, FALSE, TRUE, FALSE, FALSE, FALSE)
                    [] OTHER       -> shell],
     order |-> <<"getty", "motd", "shell">>,
     cmds  |-> {<<"list", "">>},
     forks |-> MaxForks]

BootSpec == (\E c \in Configs \cup {CfgGetty} : InitOf(c)) /\ [][Next]_vars

----------------------------------------------------------------------------
(* Properties. *)

Names == DOMAIN services
IsOneshot(n) == cfg.defs[n].type = "oneshot"

\* C1: in every reachable state, whatever the interleaving of start, stop,
\* restart, reap and restart-thread steps, a service whose state is running
\* has pid > 0 and a service whose state is stopped has pid = 0.
C1_PidFollowsState ==
    \A n \in Names :
        /\ services[n].state = "running" => services[n].pid > 0
        /\ services[n].state = "stopped" => services[n].pid = 0

\* C1 case: stop_service is about to retake the mutex while a restart thread,
\* run during the unlocked wait, has already brought the service back up
C1_Witness ==
    /\ main.pc = "stop_relock"
    /\ services[main.name].state = "running"
    /\ services[main.name].pid > main.fpid
    /\ \E n \in Names : services[n].state = "stopped" /\ services[n].pid = 0

\* C2: whenever start_service(s) returns true, to any caller (the control
\* handler, a boot thread, a restart thread, the recursion over requires),
\* the registry holds s as running with pid > 0, or s is a oneshot and the
\* registry holds it as stopped with pid = 0.
C2_StartOkMeansUp ==
    (ev.kind = "start_ret" /\ ev.val) =>
        /\ Found(ev.name)
        /\ \/ services[ev.name].state = "running" /\ services[ev.name].pid > 0
           \/ /\ IsOneshot(ev.name)
              /\ services[ev.name].state = "stopped"
              /\ services[ev.name].pid = 0

\* C3: whenever stop_service(s) returns true, whatever state s was in, the
\* registry holds s as stopped with pid = 0 and the child that had s's
\* former pid has been collected.
C3_StopOkMeansDown ==
    (ev.kind = "stop_ret" /\ ev.val) =>
        /\ services[ev.name].state = "stopped"
        /\ services[ev.name].pid = 0
        /\ ev.pid > 0 => proc[ev.pid] = "gone"

\* the edges of the state machine
Edges ==
    {<<"stopped", "starting">>, <<"starting", "running">>, <<"starting", "failed">>,
     <<"running", "stopping">>, <<"stopping", "stopped">>, <<"running", "failed">>,
     <<"failed", "starting">>, <<"running", "stopped">>}

\* C4: every change of a service's state is made by a thread holding the
\* mutex and follows an edge of the state machine (running -> stopped only
\* for a reaped child that exited 0 or a oneshot that completed with 0).
C4_OnlyEdges ==
    [][\A n \in Names :
          services'[n].state # services[n].state =>
              /\ services_mutex # NoThread
              /\ <<services[n].state, services'[n].state>> \in Edges
              /\ (services[n].state = "running" /\ services'[n].state = "stopped") =>
                     \/ ev'.kind = "start_ret" /\ ev'.val /\ IsOneshot(n)
                     \/ ev'.kind \in {"restart_scheduled", "no_restart"} /\ ev'.val]_vars

\* the activation of thread t that is looking at a running service, under the mutex
SeesRunning(t) ==
    /\ Running(t)
    /\ Top(t).pc = "enter"
    /\ Found(Top(t).name)
    /\ services[Top(t).name].state = "running"

\* C5: start_service(s) on a service that is running returns true, forks no
\* child and leaves the pid, the state and the failures counter of s (the
\* whole registry) as they were.
C5_StartIsIdempotent ==
    [][\A t \in Threads :
          (SeesRunning(t) /\ stack'[t] # stack[t]) =>
              /\ ev' = Event("start_ret", t, Top(t).name, TRUE, 0)
              /\ services' = services
              /\ proc' = proc]_vars

\* C5 case: `start login` after the boot started login has been answered by
\* the early return, and one child has been forked in all
C5_Witness ==
    /\ ev = Event("start_ret", MainThread, "login", TRUE, 0)
    /\ main.cmd = "start"
    /\ main.pc = "ctl_write"
    /\ services["login"] = [state |-> "running", pid |-> 1, failures |-> 0]
    /\ proc = <<"live">>

\* C6: when `stop s` follows a `stop s` that was answered OK, the service is
\* stopped with pid = 0 once the second stop_service returns.
C6_StopTwiceLeavesStopped ==
    (ev.kind = "stop_ret" /\ main.cmd = "stop" /\ main.prev = ev.name) =>
        /\ ev.val
        /\ services[ev.name].state = "stopped"
        /\ services[ev.name].pid = 0

\* every service named in n.requires is running, or a oneshot that completed
RequiresUp(n) ==
    \A i \in 1 .. Len(cfg.defs[n].requires) :
        LET d == cfg.defs[n].requires[i]
        IN  /\ Found(d)
            /\ \/ services[d].state = "running"
               \/ IsOneshot(d) /\ services[d].state = "stopped"

\* C7: at the moment the supervisor forks the child of a service, every
\* service named in its requires is running or is a oneshot that completed,
\* also when boot threads or restart threads start services concurrently.
C7_RequiresUpAtFork ==
    (ev.kind = "fork" /\ ev.val) => RequiresUp(ev.name)

\* C8: with x requires y and y requires x, no child is forked for x or y, and
\* `start x` returns false with both services stopped or failed.
C8_CycleRejected ==
    cfg = CfgCycle =>
        /\ (ev.kind = "fork" /\ ev.val) => ev.name \notin {"x", "y"}
        /\ (ev.kind = "start_ret" /\ ev.name = "x" /\ ~Running(ev.thread)) =>
               /\ ~ev.val
               /\ services["x"].state \in {"stopped", "failed"}
               /\ services["y"].state \in {"stopped", "failed"}

Scheduled(n) == ev'.kind = "restart_scheduled" /\ ev'.name = n /\ worker' # worker

\* C10: a failures counter never decreases and never exceeds 10; every
\* restart the reaper schedules adds one to the counter of its service, so
\* at most 10 are scheduled for one service, and a reap that finds the
\* counter at 10 schedules none.
C10_RestartIsCapped ==
    [][\A n \in Names :
          /\ services[n].failures <= services'[n].failures
          /\ services'[n].failures <= MaxFailures
          /\ Scheduled(n) => services'[n].failures = services[n].failures + 1
          /\ services'[n].failures # services[n].failures => Scheduled(n)
          /\ services[n].failures = MaxFailures => ~Scheduled(n)]_vars

\* C10 case: the reap of login's 11th child found failures = 10 and
\* scheduled nothing
C10_Witness ==
    /\ ev = Event("no_restart", MainThread, "login", FALSE, MaxFailures + 1)
    /\ services["login"].failures = MaxFailures
    /\ \A k \in Workers : worker[k] = FreeWorker

\* the restart threads scheduled for n that have not called start_service yet
Outstanding(n) == {k \in Workers : worker[k].st = "sleep" /\ worker[k].name = n}

\* C11: at any time at most one restart thread scheduled for a service is
\* still to call start_service, whatever start and stop requests the
\* clients send in between.
C11_OneRestartOutstanding ==
    \A n \in Names : Cardinality(Outstanding(n)) <= 1

\* C12 as stated: every connection accepted, whatever the client sent (no
\* byte at all included), has had exactly one response written when it is
\* closed, and a call of handle_control_commands accepts at most one.
C12_OneResponsePerConnection ==
    /\ main.conns <= 1
    /\ main.pc = "ctl_close" => main.sent = 1

\* C12, amended: a connection on which the client sent some bytes has had
\* exactly one response written when it is closed, and the close follows the
\* write; a connection on which the client sent nothing is closed with no
\* response; a call of handle_control_commands accepts at most one connection.
C12_OneResponsePerRequest ==
    /\ main.conns <= 1
    /\ main.sent <= 1
    /\ main.sent = 1 => main.pc = "ctl_close"
    /\ main.pc = "ctl_close" => main.sent = (IF main.cmd = "" THEN 0 ELSE 1)

\* C12 case: the connection of a `restart login` was closed after its response
C12_Witness ==
    /\ ev = Event("closed", MainThread, "restart", TRUE, 0)
    /\ main.pc = "reap"
    /\ main.conns = 0

\* C31: the reaper leaves the owner of a collected child stopped when the
\* child exited with status 0 and failed otherwise, with its pid cleared, and
\* schedules a restart (and counts a failure) only for a service it left
\* failed: never for a child that exited with status 0.
C31_RestartOnlyAfterFailure ==
    ev.kind \in {"restart_scheduled", "no_restart"} /\ ev.thread = MainThread =>
        /\ services[ev.name].pid = 0
        /\ services[ev.name].state = (IF ev.val THEN "stopped" ELSE "failed")
        /\ ev.kind = "restart_scheduled" => ~ev.val

\* C32: at boot every autostart service is in exactly one of the three
\* buckets, and no service of the tty bucket is forked while the supervisor
\* is still launching, walking or joining the parallel and sequential
\* buckets, whatever the definitions (a tty-bucket service named in another
\* service's requires included).
Buckets(n) ==
    {b \in {"tty", "parallel", "sequential"} :
        InSeq(n, CASE b = "tty"      -> tty_services
                   [] b = "parallel" -> parallel_services
                   [] OTHER          -> sequential_services)}

C32_TtyBucketLast ==
    /\ \A n \in DOMAIN cfg.defs :
          Cardinality(Buckets(n)) = (IF cfg.defs[n].autostart THEN 1 ELSE 0)
    /\ ev.kind = "fork" /\ ev.val /\ InSeq(ev.name, tty_services) =>
          main.pc \notin {"boot", "boot_seq", "boot_seq_call", "boot_join"}

\* C33: the wait for an `after` entry is bounded and advisory: a start that
\* has begun to wait polls each entry at most the bounded number of times
\* and then calls fork() for its service, whether or not the entries reached
\* a terminal state: also when the `after` lists form a cycle or name a
\* service that never gets there or one the registry does not hold.
Waiting(t, n) == Running(t) /\ Top(t).pc \in {"lock_wait", "wait"} /\ Top(t).name = n

C34_NeverSuspends ==
    /\ (main.conns > 0) ~> (ev.kind = "closed")
    /\ []<>(main.pc = "reap")

\* thread t is at a lock_guard or a lock() of the registry mutex
Waits(t) ==
    \/ Running(t) /\ Top(t).pc \in DOMAIN LockNext
    \/ t = MainThread /\ main.pc \in {"stop_lock", "stop_relock", "query_lock", "reap_lock"}

\* thread t is in a section of the code that a lock_guard or a lock() opens
Inside(t) ==
    \/ Running(t) /\ Top(t).pc \in {LockNext[pc] : pc \in DOMAIN LockNext}
    \/ t = MainThread /\ main.pc \in {"stop_check", "stop_kill", "stop_wait", "query", "reap_update"}

\* C36: the registry mutex never deadlocks.  No thread takes it while it
\* holds it; every acquisition is matched by one release on every path (a
\* thread holds the mutex exactly while it is in a section a lock opens, and
\* the mutex passes from one thread to another only through a release); and,
\* the children exiting, every thread that waits for the mutex obtains it.
C36_MutexNeverDeadlocks ==
    /\ [](\A t \in Threads : /\ Waits(t) => services_mutex # t
                              /\ Inside(t) <=> services_mutex = t)
    /\ [][services_mutex' # services_mutex =>
              services_mutex = NoThread \/ services_mutex' = NoThread]_vars
    /\ \A t \in Threads : Waits(t) ~> (services_mutex = t)

\* a boot or restart thread is back from waitpid for its oneshot child and
\* waits for the mutex while the main thread holds it
C36_Witness ==
    /\ \E t \in Threads : Running(t) /\ Top(t).pc = "lock_oneshot"
    /\ services_mutex = MainThread
    /\ main.pc \in {"stop_check", "stop_kill", "stop_wait"}

\* C37: a stop is durable.  Once stop_service(s) has returned success for a
\* `stop s` that left s stopped, and until the supervisor accepts its next
\* request, the record of s stays as it is (stopped, pid 0, failures
\* unchanged): no restart thread scheduled before the stop brings s back.
C37_StopIsDurable ==
    [][(/\ main.prev # ""
        /\ main.pc \in {"reap", "reap_lock", "reap_update", "ctl"}
        /\ services[main.prev].state = "stopped") =>
            services'[main.prev] = services[main.prev]]_vars

\* the child p is the pid of a record, or the pid fork() just returned to a
\* thread that is about to record it
Tracked(p) ==
    \/ \E n \in Names : services[n].pid = p
    \/ \E t \in Threads :
          Running(t) /\ Top(t).pid = p /\ Top(t).pc \in {"lock_parent", "parent", "oneshot_wait"}

\* C38: under every interleaving of the unlocked window of stop_service
\* with the restart and boot threads, every live child is the pid that the
\* record of its service holds (so a service has at most one live child and
\* no live child is untracked), and stop_service signals no other child than
\* the one that ran when it was called.
C38_OneTrackedChild ==
    /\ \A p \in 1 .. Len(proc) : proc[p] = "live" => Tracked(p)
    /\ ev.kind \in {"SIGTERM", "SIGKILL"} => ev.pid = main.fpid

\* C39: when a restart thread starts a oneshot while the main thread reaps,
\* the exit of the child is consumed once and the starter acts on it: the
\* status with which the starter comes back from waitpid (from which it sets
\* the final state and its return value) is the status the child exited
\* with, here the one reap_zombies has just collected for the same pid.
C39_OneshotExitOnce ==
    \A t \in Threads :
        (/\ Running(t)
         /\ Top(t).pc \in {"lock_oneshot", "oneshot"}
         /\ main.pc \in {"reap_lock", "reap_update"}
         /\ main.rpid = Top(t).pid) => Top(t).status = main.rstatus

\* a request the supervisor answers with an error: `start` or `stop` of a
\* name the registry does not hold, or a verb it does not know
ErrorRequest ==
    /\ main.conns = 1
    /\ main.cmd # ""
    /\ \/ main.cmd \in {"start", "stop"} /\ ~Found(main.name)
       \/ main.cmd \notin {"start", "stop", "restart", "status", "list"}
MainStep == main' # main \/ stack'[MainThread] # stack[MainThread]

\* C28: `start NAME` and `stop NAME` for a name the registry does not hold are
\* answered FAILED and a request with an unknown verb is answered
\* `Unknown command`; while it handles such a request the supervisor changes
\* no service's state, pid or failures, forks nothing and signals nothing.
C28_ErrorsChangeNothing ==
    [][ErrorRequest /\ MainStep =>
          /\ services' = services
          /\ proc' = proc
          /\ ev'.kind \notin {"fork", "SIGTERM", "SIGKILL"}
          /\ ev'.kind = "response" =>
                ev'.name = IF main.cmd \in {"start", "stop"} THEN "FAILED"
                           ELSE "Unknown command"
          /\ ev'.kind = "closed" => main.sent = 1]_vars

C28_Witness ==
    /\ ErrorRequest
    /\ main.cmd = "start"
    /\ ev = Event("response", MainThread, "FAILED", TRUE, 0)

\* C29: when the start of a service named in s.requires returns failure, the
\* start of s does nothing but take the mutex, mark s failed and return
\* failure: it forks no child for s and starts none of the requires entries
\* that follow.
C29_FailedRequireFailsStart ==
    [][\A t \in Threads :
          /\ /\ Len(stack[t]) >= 2
             /\ Len(stack'[t]) = Len(stack[t]) - 1
             /\ ~ev'.val
             => Top(t).pc \in {"enter", "depfail", "oneshot", "forkfail"}
                  /\ stack'[t][Len(stack'[t])].pc = "lock_depfail"
                  /\ stack'[t][Len(stack'[t])].name = stack[t][Len(stack[t]) - 1].name
          /\ Running(t) /\ Top(t).pc = "lock_depfail" /\ stack'[t] # stack[t]
             => /\ stack'[t] = SetTop(t, [Top(t) EXCEPT !.pc = "depfail"])[t]
                /\ services' = services /\ proc' = proc
          /\ Running(t) /\ Top(t).pc = "depfail" /\ stack'[t] # stack[t]
             => /\ ev' = Event("start_ret", t, Top(t).name, FALSE, 0)
                /\ services'[Top(t).name].state = "failed"
                /\ proc' = proc
                /\ Len(stack'[t]) = Len(stack[t]) - 1]_vars

C29_Witness ==
    /\ ev = Event("start_ret", MainThread, "u", FALSE, 0)
    /\ services["u"] = [state |-> "failed", pid |-> 0, failures |-> 0]
    /\ services["a"].state = "stopped"
    /\ main.resp = "FAILED"

\* C30: stop_service signals no process that has already been collected: a
\* child that exited during the polls after SIGTERM, and was collected by
\* one of them, is not sent SIGKILL.
C30_NoSignalToReaped ==
    ev.kind \in {"SIGTERM", "SIGKILL"} => ev.val

----------------------------------------------------------------------------
(***************************************************************************)
(* Dreamland, the package manager (src/Dreamland/src/main.cpp): the        *)
(* catalog, the installed registry and its file, the resolver and the      *)
(* commands.  A std::string is a sequence of characters; a package name    *)
(* is a string.                                                            *)
(***************************************************************************)

\* dependencies one package lists at most
MaxDeps == 2

\* the characters of the model, in the order of their codes
Chars == <<" ", "1", "<", "=", ">", "a", "b", "c">>
Code(ch) == CHOOSE i \in 1 .. Len(Chars) : Chars[i] = ch

\* std::string operator<
RECURSIVE Less(_, _)
Less(x, y) ==
    IF y = <<>> THEN FALSE
    ELSE IF x = <<>> THEN TRUE
    ELSE IF Head(x) # Head(y) THEN Code(Head(x)) < Code(Head(y))
    ELSE Less(Tail(x), Tail(y))

\* the elements of a std::set<std::string> in the order a range-for meets them
RECURSIVE InOrder(_)
InOrder(S) ==
    IF S = {} THEN <<>>
    ELSE LET m == CHOOSE x \in S : \A y \in S : x = y \/ Less(x, y)
         IN  <<m>> \o InOrder(S \ {m})

PkgNames == {<<"a">>, <<"b">>, <<"c">>}

\* a Package: an Arch package has the dependencies of its .PKGINFO when
\* resolve_arch_package_deps could fetch the archive, those of the catalog
\* otherwise; a Galactica package those of its package file
Package(version, dependencies, source) ==
    [version |-> version, dependencies |-> dependencies, source |-> source]

Range(seq) == {seq[i] : i \in 1 .. Len(seq)}

\* a map with one more entry, or one entry replaced: m[k] = v
Put(m, k, v) == [x \in DOMAIN m \cup {k} |-> IF x = k THEN v ELSE m[x]]

\* load_galactica_package: whether the index lists the package and its file
\* can be had, and the catalog afterwards (packages[pkg.name] = pkg)
CanLoad(pkg_name) == pkg_name \in files.pkg_index /\ pkg_name \in DOMAIN repo
load_galactica_package(pkgs, pkg_name) ==
    IF CanLoad(pkg_name) THEN Put(pkgs, pkg_name, repo[pkg_name]) ELSE pkgs

\* lines 1256-1261: the dependency with its version constraint cut off
Strip(dep) ==
    LET ops == {i \in 1 .. Len(dep) : dep[i] \in {">", "=", "<"}}
    IN  IF ops = {} THEN dep
        ELSE SubSeq(dep, 1, (CHOOSE i \in ops : \A j \in ops : i <= j) - 1)

\* lines 1223-1268: the breadth-first walk that builds dep_graph, with the
\* catalog as the loads on the way leave it
RECURSIVE Walk(_, _, _, _)
Walk(to_process, all_packages, dep_graph, pkgs) ==
    IF to_process = <<>>
    THEN [all_packages |-> all_packages, dep_graph |-> dep_graph, packages |-> pkgs]
    ELSE LET current == Head(to_process)
             rest    == Tail(to_process)
             loaded  == IF current \in DOMAIN pkgs THEN pkgs
                        ELSE load_galactica_package(pkgs, current)
         IN  IF current \in all_packages \/ current \in DOMAIN installed
             THEN Walk(rest, all_packages, dep_graph, pkgs)
             ELSE IF current \notin DOMAIN loaded
             THEN Walk(rest, all_packages \cup {current}, dep_graph, loaded)
             ELSE LET raw  == loaded[current].dependencies
                      deps == [i \in 1 .. Len(raw) |-> Strip(raw[i])]
                  IN  Walk(rest \o deps, all_packages \cup {current},
                           Put(dep_graph, current, deps), loaded)

\* lines 1271-1273: result, visited and temp_mark before the first visit
Unvisited == [ok |-> TRUE, result |-> <<>>, visited |-> {}, temp_mark |-> {}]

RECURSIVE visit(_, _, _), visit_each(_, _, _)

\* a visit that takes a node whose visit is under way for one already visited
visit_ignores_temp_mark(node, dep_graph, st) ==
    IF node \in st.visited \/ node \in st.temp_mark THEN st
    ELSE LET m == [st EXCEPT !.temp_mark = @ \cup {node}]
             d == IF node \in DOMAIN dep_graph
                  THEN visit_each(dep_graph[node], dep_graph, m) ELSE m
         IN  [d EXCEPT !.temp_mark = @ \ {node}, !.visited = @ \cup {node},
                       !.result = Append(@, node)]

\* a visit that appends a node before the nodes it depends on
visit_node_first(node, dep_graph, st) ==
    IF node \in st.visited THEN st
    ELSE IF node \in st.temp_mark THEN [st EXCEPT !.ok = FALSE]
    ELSE LET m == [st EXCEPT !.temp_mark = @ \cup {node}, !.result = Append(@, node)]
             d == IF node \in DOMAIN dep_graph
                  THEN visit_each(dep_graph[node], dep_graph, m) ELSE m
         IN  IF ~d.ok THEN d
             ELSE [d EXCEPT !.temp_mark = @ \ {node}, !.visited = @ \cup {node}]

\* lines 1275-1297: the lambda `visit`; st.ok is what it returns
visit(node, dep_graph, st) ==
    IF node \in st.visited THEN st
    ELSE IF node \in st.temp_mark THEN [st EXCEPT !.ok = FALSE]
    ELSE LET m == [st EXCEPT !.temp_mark = @ \cup {node}]
             d == IF node \in DOMAIN dep_graph
                  THEN visit_each(dep_graph[node], dep_graph, m) ELSE m
         IN  IF ~d.ok THEN d
             ELSE [d EXCEPT !.temp_mark = @ \ {node}, !.visited = @ \cup {node},
                            !.result = Append(@, node)]

\* the loops of lines 1287-1290 and 1300-1303: visit each node until one fails
visit_each(nodes, dep_graph, st) ==
    IF nodes = <<>> \/ ~st.ok THEN st
    ELSE visit_each(Tail(nodes), dep_graph, visit(Head(nodes), dep_graph, st))

\* resolve_dependencies: the order it returns and the catalog it leaves
resolve_dependencies(pkgs, pkg_name) ==
    LET w  == Walk(<<pkg_name>>, {}, NoMap, pkgs)
        st == visit_each(InOrder(w.all_packages), w.dep_graph, Unvisited)
    IN  [order |-> IF st.ok THEN st.result ELSE <<>>, packages |-> w.packages]

----------------------------------------------------------------------------
(* The installed registry and its file, installed.db: a sequence of lines. *)

Galactica == <<"g", "a", "l", "a", "c", "t", "i", "c", "a">>
Arch == <<"a", "r", "c", "h">>

\* lines 1184-1186: the line of one entry
Line(name, pkg) ==
    name \o <<" ">> \o pkg.version \o <<" ">>
         \o (IF pkg.source = "GALACTICA" THEN Galactica ELSE Arch)

\* save_installed: the file it writes, one line per entry in key order
save_installed(reg) ==
    LET names == InOrder(DOMAIN reg)
    IN  [i \in 1 .. Len(names) |-> Line(names[i], reg[names[i]])]

\* operator>> of std::istringstream: the words of a line, blanks skipped
RECURSIVE Words(_)
Words(line) ==
    IF line = <<>> THEN <<>>
    ELSE IF Head(line) = " " THEN Words(Tail(line))
    ELSE LET blanks == {i \in 1 .. Len(line) : line[i] = " "}
             end    == IF blanks = {} THEN Len(line) + 1
                       ELSE CHOOSE i \in blanks : \A j \in blanks : i <= j
         IN  <<SubSeq(line, 1, end - 1)>> \o Words(SubSeq(line, end, Len(line)))

\* the k-th extraction of line 1206: the word, or the empty string when
\* the line has run out
Word(line, k) == IF k <= Len(Words(line)) THEN Words(line)[k] ELSE <<>>

\* lines 1203-1210: the entry a line yields
Parsed(line) ==
    Package(Word(line, 2), <<>>,
            IF Word(line, 3) = Galactica THEN "GALACTICA" ELSE "ARCH_BINARY")

\* load_installed: the registry after the lines of the file went into reg
RECURSIVE load_installed(_, _)
load_installed(lines, reg) ==
    IF lines = <<>> THEN reg
    ELSE IF Head(lines) = <<>> THEN load_installed(Tail(lines), reg)
    ELSE load_installed(Tail(lines), Put(reg, Word(Head(lines), 1), Parsed(Head(lines))))

----------------------------------------------------------------------------
(* The resolver on every catalog of the bounds. *)

\* what a dependency line may say
DepTokens == PkgNames \cup {<<"c", ">", "=", "1">>}

RECURSIVE SeqsUpTo(_, _)
SeqsUpTo(S, n) ==
    IF n = 0 THEN {<<>>}
    ELSE LET shorter == SeqsUpTo(S, n - 1)
         IN  shorter \cup {Append(q, x) : q \in {r \in shorter : Len(r) = n - 1}, x \in S}

DepLists == SeqsUpTo(DepTokens, MaxDeps)

\* a and b come from the Arch databases, c from the Galactica repository
ArchNames == {<<"a">>, <<"b">>}
GalacticaNames == {<<"c">>}

\* the registries with the packages of S installed
InstalledOf(S) == [n \in S |-> Package(<<"1">>, <<>>, "ARCH_BINARY")]

ResolveInit ==
    /\ \E known \in SUBSET ArchNames : \E deps \in [known -> DepLists] :
          packages = [n \in known |-> Package(<<"1">>, deps[n], "ARCH_BINARY")]
    /\ \E known \in SUBSET GalacticaNames : \E deps \in [known -> DepLists] :
          repo = [n \in known |-> Package(<<"1">>, deps[n], "GALACTICA")]
    /\ \E S \in SUBSET PkgNames : installed = InstalledOf(S)
    /\ files = [NoFiles EXCEPT !.pkg_index = DOMAIN repo]
    /\ \E root \in PkgNames : dl = [pc |-> "resolve", pkg_name |-> root, order |-> <<>>]
    /\ Booted(CfgLogin)
    /\ NoPoyo

\* the call of resolve_dependencies
resolve ==
    /\ dl.pc = "resolve"
    /\ LET r == resolve_dependencies(packages, dl.pkg_name)
       IN  /\ packages' = r.packages
           /\ dl' = [dl EXCEPT !.pc = "resolved", !.order = r.order]
    /\ UNCHANGED <<installed, repo, files, airride, poyo>>

ResolveNext == resolve

ResolveSpec == ResolveInit /\ [][ResolveNext]_vars

----------------------------------------------------------------------------
(* The registry file written by one process and read by the next. *)

\* the versions of the model: none given, or "1"
Versions == {<<>>, <<"1">>}
Sources == {"GALACTICA", "ARCH_BINARY"}

RegistryInit ==
    /\ \E S \in SUBSET PkgNames : \E v \in [S -> Versions] : \E src \in [S -> Sources] :
          installed = [n \in S |-> Package(v[n], <<>>, src[n])]
    /\ packages = NoMap
    /\ repo = NoMap
    /\ files = NoFiles
    /\ dl = [pc |-> "save", saved |-> NoMap]
    /\ Booted(CfgLogin)
    /\ NoPoyo

\* save_installed, the last thing a process does with the registry
registry_save ==
    /\ dl.pc = "save"
    /\ files' = [files EXCEPT !.installed_db = save_installed(installed)]
    /\ installed' = NoMap
    /\ dl' = [pc |-> "load", saved |-> installed]
    /\ UNCHANGED <<packages, repo, airride, poyo>>

\* load_installed, the first thing the next process does
registry_load ==
    /\ dl.pc = "load"
    /\ installed' = load_installed(files.installed_db, installed)
    /\ dl' = [dl EXCEPT !.pc = "loaded"]
    /\ UNCHANGED <<packages, repo, files, airride, poyo>>

RegistryNext == registry_save \/ registry_load

RegistrySpec == RegistryInit /\ [][RegistryNext]_vars

----------------------------------------------------------------------------
(* `dreamland install [--arch] <name>`: install_package and what it calls. *)

\* dependencies one package lists at most, in the catalogs of InstallSpec
ListedDeps == 1

Usr == <<"u", "s", "r", "/">>
Bin == <<"b", "i", "n", "/">>
PkgInfo == <<".", "P", "K", "G", "I", "N", "F", "O">>
MetaNames == {PkgInfo, <<".", "M", "T", "R", "E", "E">>,
              <<".", "B", "U", "I", "L", "D", "I", "N", "F", "O">>,
              <<".", "I", "N", "S", "T", "A", "L", "L">>}

\* the entries of the archive of an Arch package, as the mirrors serve it
ArchiveEntry(pathname, type) == [pathname |-> pathname, type |-> type]
Archive(name) ==
    <<ArchiveEntry(PkgInfo, "file"), ArchiveEntry(Usr, "dir"),
      ArchiveEntry(Usr \o Bin \o name, "file")>>

\* std::string::find(sub) != npos
Contains(str, sub) ==
    \E i \in 1 .. Len(str) - Len(sub) + 1 : SubSeq(str, i, i + Len(sub) - 1) = sub

\* lines 792-798: the entries extract_zst_package passes over
Skipped(entry) ==
    /\ entry.pathname # <<>>
    /\ Head(entry.pathname) = "."
    /\ \E m \in MetaNames : Contains(entry.pathname, m)

\* extract_zst_package with dest "": the paths under / once the first `read`
\* entries of the archive were read (line 785 ends the loop at the end of
\* the archive and at an error alike)
extract_zst_package(archive, read, root) ==
    root \cup {archive[i].pathname : i \in {j \in 1 .. read : ~Skipped(archive[j])}}

\* save_package_db: the Arch packages of the catalog
save_package_db(pkgs) ==
    [n \in {m \in DOMAIN pkgs : pkgs[m].source = "ARCH_BINARY"} |-> pkgs[n]]

\* `return val` of install_package, and the exit of the process
Exit(val) == [dl EXCEPT !.pc = "exit", !.result = val]

\* main, lines 2081-2090: a command main does not know prints the usage
show_usage ==
    /\ dl.pc = "main"
    /\ dl.command \notin {"sync", "search", "deps", "install", "list", "clean", "base-devel"}
    /\ dl' = Exit(FALSE)
    /\ UNCHANGED <<packages, installed, repo, files, airride, poyo>>

\* lines 1506-1528: the registry and, the catalog being empty, the package
\* database and the index are loaded
install_load ==
    /\ dl.pc = "main"
    /\ dl.command = "install"
    /\ installed' = load_installed(files.installed_db, installed)
    /\ packages' = IF packages = NoMap THEN files.pkg_db ELSE packages
    /\ dl' = IF packages' = NoMap /\ files.pkg_index = {} THEN Exit(FALSE)
             ELSE [dl EXCEPT !.pc = "find", !.was = installed']
    /\ UNCHANGED <<repo, files, airride, poyo>>

\* lines 1535-1575: whether the package is found, and the catalog then
IsArch(pkgs, n) == n \in DOMAIN pkgs /\ pkgs[n].source = "ARCH_BINARY"
FindPackage(pkg_name, force_arch) ==
    IF force_arch THEN [found |-> IsArch(packages, pkg_name), packages |-> packages]
    ELSE [found    |-> CanLoad(pkg_name) \/ IsArch(packages, pkg_name),
          packages |-> load_galactica_package(packages, pkg_name)]

\* lines 1530-1583: the package is looked up and its dependencies resolved
install_resolve ==
    /\ dl.pc = "find"
    /\ LET f == FindPackage(dl.pkg_name, dl.force_arch)
           r == resolve_dependencies(f.packages, dl.pkg_name)
       IN  IF ~f.found
           THEN /\ packages' = f.packages
                /\ dl' = Exit(FALSE)
           ELSE /\ packages' = r.packages
                /\ dl' = IF r.order = <<>> THEN [Exit(FALSE) EXCEPT !.resolved = TRUE]
                         ELSE [dl EXCEPT !.pc = "plan", !.order = r.order,
                                         !.resolved = TRUE]
    /\ UNCHANGED <<installed, repo, files, airride, poyo>>

\* lines 1591-1625: the catalog after the plan loaded what it could, and the
\* names the plan lists
RECURSIVE LoadEach(_, _)
LoadEach(names, pkgs) ==
    IF names = <<>> THEN pkgs
    ELSE LoadEach(Tail(names),
                  IF Head(names) \in DOMAIN installed \/ Head(names) \in DOMAIN pkgs
                  THEN pkgs ELSE load_galactica_package(pkgs, Head(names)))
ToInstall(order, pkgs) ==
    {i \in 1 .. Len(order) : order[i] \notin DOMAIN installed /\ order[i] \in DOMAIN pkgs}

\* lines 1585-1647: the plan is shown and the user asked
install_plan ==
    /\ dl.pc = "plan"
    /\ packages' = LoadEach(dl.order, packages)
    /\ IF ToInstall(dl.order, packages') = {}
       THEN dl' = Exit(TRUE)
       ELSE \E confirm \in {"y", "n"} :
               dl' = IF confirm = "y" THEN [dl EXCEPT !.pc = "loop", !.i = 1]
                     ELSE Exit(FALSE)
    /\ UNCHANGED <<installed, repo, files, airride, poyo>>

\* lines 1116-1119 and 1167-1170: the package enters the registry, which is saved
Register(name, pkg, root) ==
    /\ installed' = Put(installed, name, pkg)
    /\ files' = [files EXCEPT !.installed_db = save_installed(installed'),
                              !.root = root,
                              !.pkg_db = save_package_db(packages')]

\* an install loop that goes on to the next package when the archive cannot be had
install_from_arch_goes_on(name, pkg) ==
    \/ /\ dl' = [dl EXCEPT !.i = @ + 1, !.tried = Append(@, name)]
       /\ UNCHANGED <<installed, files>>
    \/ \E read \in 0 .. Len(Archive(name)) :
          /\ Register(name, pkg, extract_zst_package(Archive(name), read, files.root))
          /\ dl' = [dl EXCEPT !.i = @ + 1, !.tried = Append(@, name)]

\* install_from_arch, then line 1683: the archive cannot be had or opened,
\* or it is extracted as far as it can be read
install_from_arch(name, pkg) ==
    \/ /\ dl' = [Exit(FALSE) EXCEPT !.tried = Append(@, name)]
       /\ UNCHANGED <<installed, files>>
    \/ \E read \in 0 .. Len(Archive(name)) :
          /\ Register(name, pkg, extract_zst_package(Archive(name), read, files.root))
          /\ dl' = [dl EXCEPT !.i = @ + 1, !.tried = Append(@, name)]

\* install_from_galactica, then line 1683: the source cannot be had or
\* built, or the build installed it
install_from_galactica(name, pkg) ==
    \/ /\ dl' = [Exit(FALSE) EXCEPT !.tried = Append(@, name)]
       /\ UNCHANGED <<installed, files>>
    \/ /\ Register(name, pkg, files.root)
       /\ dl' = [dl EXCEPT !.i = @ + 1, !.tried = Append(@, name)]

\* lines 1650-1684: one turn of the install loop
install_next ==
    /\ dl.pc = "loop"
    /\ dl.i <= Len(dl.order)
    /\ LET name == dl.order[dl.i]
       IN  IF name \in DOMAIN installed
           THEN /\ dl' = [dl EXCEPT !.i = @ + 1]
                /\ UNCHANGED <<packages, installed, files>>
           ELSE /\ packages' = IF name \in DOMAIN packages THEN packages
                               ELSE load_galactica_package(packages, name)
                /\ IF name \notin DOMAIN packages'
                   THEN /\ dl' = Exit(FALSE)
                        /\ UNCHANGED <<installed, files>>
                   ELSE IF dl.force_arch \/ packages'[name].source = "ARCH_BINARY"
                   THEN install_from_arch(name, packages'[name])
                   ELSE install_from_galactica(name, packages'[name])
    /\ UNCHANGED <<repo, airride, poyo>>

\* lines 1686-1693: every package of the order is installed
install_done ==
    /\ dl.pc = "loop"
    /\ dl.i > Len(dl.order)
    /\ dl' = Exit(TRUE)
    /\ UNCHANGED <<packages, installed, repo, files, airride, poyo>>

install_package == install_load \/ install_resolve \/ install_plan \/ install_next \/ install_done

\* The catalogs, registries and commands of InstallSpec: a fresh process,
\* the files as earlier runs of sync and install left them.
InstallInit ==
    /\ packages = NoMap
    /\ installed = NoMap
    /\ \E known \in SUBSET GalacticaNames :
       \E deps \in [known -> SeqsUpTo(PkgNames, ListedDeps)] :
          repo = [n \in known |-> Package(<<"1">>, deps[n], "GALACTICA")]
    /\ \E known \in SUBSET ArchNames :
       \E deps \in [known -> SeqsUpTo(PkgNames, ListedDeps)] :
       \E S \in SUBSET PkgNames :
          files = [NoFiles EXCEPT
                     !.installed_db = save_installed(InstalledOf(S)),
                     !.pkg_db = [n \in known |-> Package(<<"1">>, deps[n], "ARCH_BINARY")],
                     !.pkg_index = DOMAIN repo]
    /\ \E command \in {"install", "remove"} : \E root \in PkgNames : \E force \in BOOLEAN :
          dl = [pc |-> "main", command |-> command, pkg_name |-> root,
                force_arch |-> force /\ command = "install", was |-> NoMap,
                resolved |-> FALSE, order |-> <<>>, i |-> 0, tried |-> <<>>,
                result |-> FALSE]
    /\ Booted(CfgLogin)
    /\ NoPoyo

InstallNext == show_usage \/ install_package

InstallSpec == InstallInit /\ [][InstallNext]_vars

----------------------------------------------------------------------------
(* `dreamland sync`: the index of the Galactica repository and the package *)
(* databases of the Arch mirrors.                                          *)

ARCH_MIRRORS == <<"rackspace", "kernel", "pkgbuild">>
ARCH_REPOS == <<"core", "extra">>

\* the packages the database of a repo describes, on every mirror
Upstream(db_repo) == IF db_repo = "core" THEN {<<"a">>} ELSE {<<"b">>}

\* fetch_galactica_index: the index cannot be had or written, or it
\* replaces the index file
sync_index ==
    /\ dl.pc = "main"
    /\ dl.command = "sync"
    /\ \/ /\ dl' = Exit(FALSE)
          /\ files' = files
       \/ /\ files' = [files EXCEPT !.pkg_index = DOMAIN repo]
          /\ dl' = [dl EXCEPT !.pc = "mirror", !.m = 1, !.r = 1]
    /\ UNCHANGED <<packages, installed, repo, airride, poyo>>

\* where sync_arch_databases goes on after a repo of mirror m: the next repo,
\* the next mirror (lines 592-597), or its end (lines 601-605)
NextRepo(ok) ==
    IF ok /\ dl.r < Len(ARCH_REPOS) THEN [dl EXCEPT !.r = @ + 1, !.success = TRUE,
                                                    !.delivered = @ \cup {<<dl.m, dl.r>>}]
    ELSE IF ok THEN [dl EXCEPT !.pc = "save", !.success = TRUE,
                               !.delivered = @ \cup {<<dl.m, dl.r>>}]
    ELSE IF dl.m < Len(ARCH_MIRRORS) THEN [dl EXCEPT !.m = @ + 1, !.r = 1]
    ELSE [dl EXCEPT !.pc = "save"]

\* lines 563-568: the packages parse_arch_db adds to the catalog
NewPackages(db_repo) == Upstream(db_repo) \ DOMAIN packages

\* lines 584-599: one repo of one mirror.  download_to_file takes a file
\* that is there for downloaded (lines 297-300); parse_arch_db fails when
\* tar does, and when it added no package (line 573)
sync_repo ==
    /\ dl.pc = "mirror"
    /\ LET db_repo == ARCH_REPOS[dl.r]
       IN  \E downloaded \in IF db_repo \in files.db THEN {TRUE} ELSE BOOLEAN :
           \E extracted \in IF downloaded THEN BOOLEAN ELSE {FALSE} :
              /\ files' = [files EXCEPT !.db = IF downloaded THEN @ \cup {db_repo} ELSE @]
              /\ packages' =
                    IF extracted
                    THEN [n \in DOMAIN packages \cup NewPackages(db_repo) |->
                            IF n \in DOMAIN packages THEN packages[n]
                            ELSE Package(<<"1">>, <<>>, "ARCH_BINARY")]
                    ELSE packages
              /\ dl' = NextRepo(extracted /\ NewPackages(db_repo) # {})
    /\ UNCHANGED <<installed, repo, airride, poyo>>

\* lines 1326-1351: without success sync gives up; with it, it saves the
\* package database and says `Sync complete!`
sync_save ==
    /\ dl.pc = "save"
    /\ IF dl.success
       THEN /\ files' = [files EXCEPT !.pkg_db = save_package_db(packages)]
            /\ installed' = load_installed(files.installed_db, installed)
            /\ dl' = Exit(TRUE)
       ELSE /\ dl' = Exit(FALSE)
            /\ UNCHANGED <<installed, files>>
    /\ UNCHANGED <<packages, repo, airride, poyo>>

sync == sync_index \/ sync_repo \/ sync_save

\* A fresh process, the files as earlier runs left them, the repository as
\* it is now.
SyncInit ==
    /\ packages = NoMap
    /\ installed = NoMap
    /\ \E known \in SUBSET GalacticaNames :
          repo = [n \in known |-> Package(<<"1">>, <<>>, "GALACTICA")]
    /\ \E known \in SUBSET ArchNames : \E index \in SUBSET GalacticaNames :
       \E cached \in SUBSET Range(ARCH_REPOS) : \E S \in SUBSET PkgNames :
          files = [NoFiles EXCEPT
                     !.installed_db = save_installed(InstalledOf(S)),
                     !.pkg_db = [n \in known |-> Package(<<"1">>, <<>>, "ARCH_BINARY")],
                     !.pkg_index = index,
                     !.db = cached]
    /\ dl = [pc |-> "main", command |-> "sync", m |-> 0, r |-> 0, success |-> FALSE,
             delivered |-> {}, old |-> files, result |-> FALSE]
    /\ Booted(CfgLogin)
    /\ NoPoyo

SyncNext == sync

SyncSpec == SyncInit /\ [][SyncNext]_vars

----------------------------------------------------------------------------
(* Properties of the resolver. *)

\* the catalog entry of a name, loaded or to be had from the repository
Known(n) == n \in DOMAIN packages \/ CanLoad(n)
Entry(n) == IF n \in DOMAIN packages THEN packages[n] ELSE repo[n]

\* the names a package depends on
DependsOn(n) ==
    IF Known(n)
    THEN {Strip(Entry(n).dependencies[i]) : i \in 1 .. Len(Entry(n).dependencies)}
    ELSE {}

\* every position of the order comes after the positions that hold the
\* dependencies of its package (the package itself apart)
DepsFirst(order) ==
    \A i, j \in 1 .. Len(order) :
        i # j /\ order[j] \in DependsOn(order[i]) => j < i

NoDuplicates(order) ==
    \A i, j \in 1 .. Len(order) : order[i] = order[j] => i = j

\* C13: in the order resolve_dependencies returns, every dependency that
\* appears stands before each package that depends on it, and no name
\* appears more than once.
C13_DepsBeforeDependents ==
    dl.pc = "resolved" => DepsFirst(dl.order) /\ NoDuplicates(dl.order)

\* C14: the order resolve_dependencies returns holds no name of the
\* installed registry; when the root is not installed and all it depends on
\* is, the order is the root alone.
C14_InstalledOmitted ==
    dl.pc = "resolved" =>
        /\ \A i \in 1 .. Len(dl.order) : dl.order[i] \notin DOMAIN installed
        /\ (dl.pkg_name \notin DOMAIN installed
              /\ DependsOn(dl.pkg_name) \subseteq DOMAIN installed)
           => dl.order = <<dl.pkg_name>>

----------------------------------------------------------------------------
(* Properties of the registry file. *)

\* the same names with the same version and source
SameRegistry(r1, r2) ==
    /\ DOMAIN r1 = DOMAIN r2
    /\ \A n \in DOMAIN r1 : r1[n].version = r2[n].version /\ r1[n].source = r2[n].source

\* C18: the file save_installed writes, loaded into an empty registry, gives
\* back the registry that was saved, entries with an empty version included.
C18_RegistryRoundTrip ==
    dl.pc = "loaded" => SameRegistry(installed, dl.saved)

----------------------------------------------------------------------------
(* Properties of install. *)

\* the dependencies of a package that is not installed which are not installed either
Missing(n) == IF n \in DOMAIN installed THEN {} ELSE DependsOn(n) \ DOMAIN installed

\* the names reached from those of S through packages that are not installed
RECURSIVE Closure(_)
Closure(S) ==
    LET T == S \cup UNION {Missing(n) : n \in S}
    IN  IF T = S THEN S ELSE Closure(T)

OnCycle(n) == \E d \in Missing(n) : n \in Closure({d})
CycleFrom(root) == \E n \in Closure({root} \ DOMAIN installed) : OnCycle(n)

\* the registry, in memory and on disk, and the files under / are as the
\* call found them, and no install was tried
NothingInstalled ==
    /\ dl.tried = <<>>
    /\ installed = dl.was
    /\ files.installed_db = save_installed(dl.was)
    /\ files.root = {}

\* C15: when the packages that are not installed and are reached from the
\* root depend on one another in a cycle, resolve_dependencies returns the
\* empty order and install_package returns failure, having installed nothing.
C15_CycleInstallsNothing ==
    dl.command = "install" /\ dl.resolved /\ CycleFrom(dl.pkg_name) =>
        /\ dl.order = <<>>
        /\ dl.pc = "exit" /\ ~dl.result
        /\ NothingInstalled

\* C15 case: install a, where a depends on b, and b and c on each other
C15_Witness ==
    /\ dl.pc = "exit" /\ dl.resolved /\ ~dl.result
    /\ dl.pkg_name = <<"a">>
    /\ CycleFrom(<<"a">>) /\ ~OnCycle(<<"a">>)
    /\ OnCycle(<<"b">>) /\ OnCycle(<<"c">>)

\* the names reached from the root along the dependencies of packages that
\* are not installed
Reached(root) ==
    LET C == Closure({root})
    IN  C \cup UNION {DependsOn(n) : n \in C \ DOMAIN installed}

\* C40: resolve_dependencies returns on every catalog, cyclic or not (the
\* walk and the visits come to an end with an order of the known names); when
\* the root is not installed and the packages reached from it through
\* packages that are not installed form no cycle (every acyclic catalog is
\* such a one), the order is not empty, ends with the root and holds only
\* names reached from the root along the dependencies of packages that are
\* not installed.
C40_RootLastAndReachable ==
    /\ dl.pc = "resolve" =>
          Len(resolve_dependencies(packages, dl.pkg_name).order) <= Cardinality(PkgNames)
    /\ (/\ dl.pc = "resolved"
        /\ dl.pkg_name \notin DOMAIN installed
        /\ ~CycleFrom(dl.pkg_name)) =>
            /\ dl.order # <<>>
            /\ dl.order[Len(dl.order)] = dl.pkg_name
            /\ Range(dl.order) \subseteq Reached(dl.pkg_name)

\* C40 case: a depends on b, which depends on c, and none is installed; a
\* package outside the order is known too
C40_Witness ==
    /\ dl.pc = "resolved"
    /\ dl.pkg_name = <<"b">>
    /\ installed = NoMap
    /\ dl.order = <<<<"c">>, <<"b">>>>
    /\ Known(<<"a">>) /\ <<"b">> \in DependsOn(<<"a">>)

\* the names of a sequence that were not installed when install_package was called
RECURSIVE NotWas(_)
NotWas(names) ==
    IF names = <<>> THEN <<>>
    ELSE IF Head(names) \in DOMAIN dl.was THEN NotWas(Tail(names))
    ELSE <<Head(names)>> \o NotWas(Tail(names))

\* the registry, in memory and in its file, holds the names it held at the
\* call and those of `added`
RegistryGrewBy(added) ==
    /\ DOMAIN installed = DOMAIN dl.was \cup added
    /\ {Word(files.installed_db[k], 1) : k \in 1 .. Len(files.installed_db)}
          = DOMAIN dl.was \cup added

C17_InstallTwiceSucceeds ==
    dl.pc = "exit" /\ dl.resolved /\ dl.pkg_name \in DOMAIN dl.was =>
        dl.result /\ NothingInstalled

----------------------------------------------------------------------------
(* Properties of sync. *)

\* some mirror delivered the database of every repo
SomeMirrorDeliveredAll ==
    \E m \in 1 .. Len(ARCH_MIRRORS) : \A r \in 1 .. Len(ARCH_REPOS) : <<m, r>> \in dl.delivered

\* C19: a sync in which no mirror delivered every repo reports failure and
\* leaves the package database and the index as they were; a sync reports
\* success only when some mirror delivered every repo.
C19_SyncAllOrNothing ==
    dl.pc = "exit" /\ dl.command = "sync" =>
        /\ ~SomeMirrorDeliveredAll =>
              /\ ~dl.result
              /\ files.pkg_db = dl.old.pkg_db
              /\ files.pkg_index = dl.old.pkg_index
        /\ dl.result => SomeMirrorDeliveredAll

----------------------------------------------------------------------------
(* Properties of the files of a binary package. *)

\* the packages this call installed from their Arch archive
BinaryInstalled ==
    {n \in Range(dl.tried) : n \in DOMAIN installed /\ installed[n].source = "ARCH_BINARY"}

\* the regular files of the archive of n that are on disk
FilesWritten(n) ==
    {Archive(n)[k].pathname : k \in {j \in 1 .. Len(Archive(n)) :
        Archive(n)[j].type = "file" /\ Archive(n)[j].pathname \in files.root}}

\* the names the registry file holds
Registered == {Word(files.installed_db[k], 1) : k \in 1 .. Len(files.installed_db)}

\* C20: a package installed from its Arch archive has a manifest on disk,
\* keyed by its name, that lists the regular files of the archive written
\* under /; once `remove p` has run, p is not in the registry file and has
\* no manifest.
C20_ManifestKept ==
    /\ dl.command = "install" =>
          \A n \in BinaryInstalled :
             /\ n \in DOMAIN files.manifests
             /\ Range(files.manifests[n]) = FilesWritten(n)
    /\ dl.command = "remove" /\ dl.pc = "exit" =>
          /\ dl.pkg_name \notin Registered
          /\ dl.pkg_name \notin DOMAIN files.manifests

\* C35: a binary install whose archive cannot be extracted to its end is
\* aborted: a package enters the registry, in memory and on disk, from its
\* Arch archive only when every entry of the archive that is no metadata is
\* on disk.
C35_PartialExtractAborts ==
    [][\A n \in DOMAIN installed' \ DOMAIN installed :
          dl.pc = "loop" /\ (dl.force_arch \/ installed'[n].source = "ARCH_BINARY") =>
              extract_zst_package(Archive(n), Len(Archive(n)), {}) \subseteq files'.root]_vars

----------------------------------------------------------------------------
(* Poyo, the login program (src/Poyo/src/main.c), as built without USE_PAM: *)
(* authentication against /etc/shadow.  Strings are sequences of           *)
(* characters, as they are for Dreamland.                                  *)

MAX_ATTEMPTS == 3
DELAY_AFTER_FAIL == 3

\* the characters of the user names tried here, with their codes: the ends of
\* the ranges is_valid_username compares with, and their neighbours
Ascii == <<<<" ", 32>>, <<"-", 45>>, <<"/", 47>>, <<"0", 48>>, <<"9", 57>>,
           <<":", 58>>, <<"@", 64>>, <<"A", 65>>, <<"Z", 90>>, <<"[", 91>>,
           <<"^", 94>>, <<"_", 95>>, <<"a", 97>>, <<"z", 122>>, <<"{", 123>>>>
Between(c, lo, hi) ==
    LET Ord(x) == (CHOOSE p \in Range(Ascii) : p[1] = x)[2]
    IN  Ord(c) >= Ord(lo) /\ Ord(c) <= Ord(hi)

\* is_valid_username, lines 198-231
is_valid_username_33(username) ==
    LET len == Len(username)
        Letter(c) == Between(c, "a", "z") \/ Between(c, "A", "Z")
    IN  /\ username # <<>>
        /\ ~(len > 33)
        /\ Letter(username[1]) \/ username[1] = "_"
        /\ \A i \in 2 .. len :
              \/ Letter(username[i])
              \/ Between(username[i], "0", "9")
              \/ username[i] = "_" \/ username[i] = "-"

is_valid_username(username) ==
    LET len == Len(username)
        Letter(c) == Between(c, "a", "z") \/ Between(c, "A", "Z")
    IN  /\ username # <<>>
        /\ ~(len > 32)
        /\ Letter(username[1]) \/ username[1] = "_"
        /\ \A i \in 2 .. len :
              \/ Letter(username[i])
              \/ Between(username[i], "0", "9")
              \/ username[i] = "_" \/ username[i] = "-"

----------------------------------------------------------------------------
(* is_valid_username on its own: names of every length up to MaxName + 2,  *)
(* with any two characters of the table at the front or at the end.        *)

MaxName == 33
UserNames ==
    LET Filler(n) == [i \in 1 .. n |-> "a"]
        ends == SeqsUpTo({p[1] : p \in Range(Ascii)}, 2)
    IN  {Filler(n) \o e : n \in 0 .. MaxName, e \in ends}
            \cup {e \o Filler(n) : n \in 0 .. MaxName, e \in ends}

UsernameInit ==
    /\ Booted(CfgLogin)
    /\ NoDreamland
    /\ shadow = NoMap /\ pwdb = NoMap /\ cred = NoCred
    /\ env = {} /\ utmp = <<>> /\ calls = <<>>
    /\ \E username \in UserNames : lg = [pc |-> "validate", username |-> username]

validate ==
    /\ lg.pc = "validate"
    /\ lg' = [pc |-> "validated", username |-> lg.username,
              valid |-> is_valid_username(lg.username)]
    /\ UNCHANGED <<shadow, pwdb, cred, env, utmp, calls, airride, dreamland>>

UsernameSpec == UsernameInit /\ [][validate]_vars

----------------------------------------------------------------------------
(* The login loop: main and what it calls.  Everything the process does to *)
(* its surroundings is appended to `calls`: n is the seconds of a sleep,   *)
(* the status of an exit, the value of attempts at a banner, and the       *)
(* result (0 or -1) of a system call.                                      *)

Call(name, n) == [call |-> name, n |-> n]
Leave(status) == [lg EXCEPT !.pc = "exit", !.status = status, !.password = <<>>]

\* crypt(3): the setting's prefix and salt, then the digest of the key under
\* that salt; a null pointer for a setting that names no scheme.  Here the
\* digest is one of three characters, so that different keys can collide.
crypt(key, setting) ==
    LET Count(c) == Cardinality({i \in 1 .. Len(key) : key[i] = c})
        sum == Count("p") + 2 * Count("q") + (IF setting[2] = "t" THEN 1 ELSE 0)
    IN  IF Len(setting) >= 2 /\ setting[1] = "$"
        THEN [null |-> FALSE, text |-> <<"$", setting[2], <<"x", "y", "z">>[(sum % 3) + 1]>>]
        ELSE [null |-> TRUE, text |-> <<>>]

\* authenticate_user, lines 308-365: the result and the seconds slept
authenticate_user_hashes_always(username, password) ==
    LET sp_pwdp == shadow[username]
        encrypted == crypt(password, sp_pwdp)
        failed == [result |-> FALSE, slept |-> DELAY_AFTER_FAIL]
    IN  IF cred.euid # 0 THEN [result |-> FALSE, slept |-> 0]
        ELSE IF username \notin DOMAIN shadow THEN failed
        ELSE IF sp_pwdp # <<>> /\ sp_pwdp[1] \in {"!", "*"} THEN failed
        ELSE IF encrypted.null THEN failed
        ELSE IF encrypted.text = sp_pwdp THEN [result |-> TRUE, slept |-> 0]
        ELSE failed

authenticate_user(username, password) ==
    LET sp_pwdp == shadow[username]
        encrypted == crypt(password, sp_pwdp)
        failed == [result |-> FALSE, slept |-> DELAY_AFTER_FAIL]
    IN  IF cred.euid # 0 THEN [result |-> FALSE, slept |-> 0]
        ELSE IF username \notin DOMAIN shadow THEN failed
        ELSE IF sp_pwdp # <<>> /\ sp_pwdp[1] \in {"!", "*"} THEN failed
        ELSE IF sp_pwdp = <<>> THEN [result |-> TRUE, slept |-> 0]
        ELSE IF encrypted.null THEN failed
        ELSE IF encrypted.text = sp_pwdp THEN [result |-> TRUE, slept |-> 0]
        ELSE failed

\* main, lines 526-547: poyo runs as root or not at all
main_start ==
    /\ lg.pc = "start"
    /\ IF cred.euid # 0
       THEN /\ lg' = Leave(1)
            /\ calls' = Append(calls, Call("exit", 1))
       ELSE /\ lg' = [lg EXCEPT !.pc = "prompt"]
            /\ calls' = calls
    /\ UNCHANGED <<shadow, pwdb, cred, env, utmp, airride, dreamland>>

\* main, lines 648-653: the loop is left with attempts = MAX_ATTEMPTS
main_exhausted ==
    /\ lg.pc = "prompt"
    /\ ~(lg.attempts < MAX_ATTEMPTS)
    /\ lg' = Leave(1)
    /\ calls' = calls \o <<Call("too_many", 0), Call("exit", 1)>>
    /\ UNCHANGED <<shadow, pwdb, cred, env, utmp, airride, dreamland>>

\* main, lines 550-584: the banner, the prompt and the user name.  `read` is
\* what fgets stored, <<>> when it returned a null pointer; the turns that
\* count no attempt are taken while fewer than MaxPrompts banners were shown.
MaxPrompts == 2
Prompts == Cardinality({i \in DOMAIN calls : calls[i].call = "banner"})
Lines == {<<"\n">>, <<"a", "\n">>, <<"z", "\r", "\n">>, <<"0", "a", "\n">>, <<"a">>}

main_prompt ==
    /\ lg.pc = "prompt"
    /\ lg.attempts < MAX_ATTEMPTS
    /\ \E read \in Lines \cup {<<>>}, eof \in BOOLEAN :
          LET shown == Append(calls, Call("banner", lg.attempts))
              ends == {i \in DOMAIN read : read[i] \in {"\r", "\n"}}
              strcspn == IF ends = {} THEN Len(read)
                         ELSE (CHOOSE i \in ends : \A j \in ends : i <= j) - 1
              username == SubSeq(read, 1, strcspn)
          IN  IF read = <<>>
              THEN IF eof
                   THEN /\ lg' = Leave(0)
                        /\ calls' = Append(shown, Call("exit", 0))
                   ELSE /\ Prompts < MaxPrompts
                        /\ lg' = lg
                        /\ calls' = shown
              ELSE /\ ~eof
                   /\ IF username = <<>>
                      THEN /\ Prompts < MaxPrompts
                           /\ lg' = lg
                           /\ calls' = shown
                      ELSE IF ~is_valid_username(username)
                      THEN /\ lg' = [lg EXCEPT !.attempts = @ + 1]
                           /\ calls' = Append(shown, Call("sleep", DELAY_AFTER_FAIL))
                      ELSE /\ lg' = [lg EXCEPT !.pc = "password", !.username = username]
                           /\ calls' = shown
    /\ UNCHANGED <<shadow, pwdb, cred, env, utmp, airride, dreamland>>

\* main, lines 586-594, and read_password, lines 145-195: the password typed,
\* or -1 when the terminal's attributes cannot be read or set
Passwords == {<<>>, <<"p">>, <<"q">>, <<"p", "q">>}

main_password ==
    /\ lg.pc = "password"
    /\ \E rc \in {0, -1}, password \in Passwords :
          IF rc # 0
          THEN /\ password = <<>>
               /\ lg' = [lg EXCEPT !.pc = "prompt", !.attempts = @ + 1, !.username = <<>>]
          ELSE lg' = [lg EXCEPT !.pc = "authenticate", !.password = password]
    /\ UNCHANGED <<shadow, pwdb, cred, env, utmp, calls, airride, dreamland>>

\* main, line 597: the call of authenticate_user
main_authenticate_accepts ==
    /\ lg.pc = "authenticate"
    /\ LET r == authenticate_user(lg.username, lg.password)
       IN  /\ lg' = [lg EXCEPT !.pc = "authenticated", !.ok = TRUE]
           /\ calls' = IF r.slept > 0 THEN Append(calls, Call("sleep", r.slept)) ELSE calls
    /\ UNCHANGED <<shadow, pwdb, cred, env, utmp, airride, dreamland>>

main_authenticate ==
    /\ lg.pc = "authenticate"
    /\ LET r == authenticate_user(lg.username, lg.password)
       IN  /\ lg' = [lg EXCEPT !.pc = "authenticated", !.ok = r.result]
           /\ calls' = IF r.slept > 0 THEN Append(calls, Call("sleep", r.slept)) ELSE calls
    /\ UNCHANGED <<shadow, pwdb, cred, env, utmp, airride, dreamland>>

\* main, lines 637-645: a failed login
main_failed_same_delay ==
    /\ lg.pc = "authenticated"
    /\ ~lg.ok
    /\ lg' = [lg EXCEPT !.pc = "prompt", !.attempts = @ + 1,
                        !.username = <<>>, !.password = <<>>]
    /\ calls' = calls \o <<Call("login_incorrect", 0), Call("sleep", DELAY_AFTER_FAIL)>>
    /\ UNCHANGED <<shadow, pwdb, cred, env, utmp, airride, dreamland>>

main_failed ==
    /\ lg.pc = "authenticated"
    /\ ~lg.ok
    /\ lg' = [lg EXCEPT !.pc = "prompt", !.attempts = @ + 1,
                        !.username = <<>>, !.password = <<>>]
    /\ calls' = calls \o <<Call("login_incorrect", 0),
                           Call("sleep", DELAY_AFTER_FAIL * (lg.attempts + 1))>>
    /\ UNCHANGED <<shadow, pwdb, cred, env, utmp, airride, dreamland>>

\* setup_environment, lines 369-402: the result, the environment and the
\* calls made; n of a setenv is the place of its variable in `names`
setup_environment_home_first(pwd, cleared) ==
    LET names == <<"HOME", "USER", "LOGNAME", "SHELL", "PATH", "TERM", "PS1">>
    IN  IF ~cleared
        THEN [rc |-> -1, env |-> env, calls |-> <<Call("setenv", 1), Call("clearenv", -1)>>]
        ELSE [rc |-> 0, env |-> Range(names),
              calls |-> <<Call("setenv", 1), Call("clearenv", 0)>>
                            \o [i \in 1 .. Len(names) - 1 |-> Call("setenv", i + 1)]]

setup_environment(pwd, cleared) ==
    LET names == <<"HOME", "USER", "LOGNAME", "SHELL", "PATH", "TERM", "PS1">>
    IN  IF ~cleared
        THEN [rc |-> -1, env |-> env, calls |-> <<Call("clearenv", -1)>>]
        ELSE [rc |-> 0, env |-> Range(names),
              calls |-> <<Call("clearenv", 0)>> \o [i \in 1 .. Len(names) |-> Call("setenv", i)]]

\* update_utmp, lines 405-442: ut_user holds 31 characters and the final zero
update_utmp(username) ==
    LET ut_user == SubSeq(username, 1, IF Len(username) < 31 THEN Len(username) ELSE 31)
    IN  [utmp |-> Append(utmp, [ut_type |-> "USER_PROCESS", ut_user |-> ut_user]),
         calls |-> <<Call("pututline", 0), Call("updwtmp", 0)>>]

\* main, lines 598-631: after a successful authentication, up to start_shell
main_session ==
    /\ lg.pc = "authenticated"
    /\ lg.ok
    /\ \E cleared \in BOOLEAN :
          IF lg.username \notin DOMAIN pwdb
          THEN /\ cleared
               /\ lg' = Leave(1)
               /\ calls' = Append(calls, Call("exit", 1))
               /\ UNCHANGED <<env, utmp>>
          ELSE LET e == setup_environment(pwdb[lg.username], cleared)
                   u == update_utmp(lg.username)
               IN  IF e.rc # 0
                   THEN /\ lg' = Leave(1)
                        /\ calls' = calls \o e.calls \o <<Call("exit", 1)>>
                        /\ UNCHANGED <<env, utmp>>
                   ELSE /\ lg' = [lg EXCEPT !.pc = "start_shell", !.password = <<>>]
                        /\ env' = e.env
                        /\ utmp' = u.utmp
                        /\ calls' = calls \o e.calls \o u.calls
    /\ UNCHANGED <<shadow, pwdb, cred, airride, dreamland>>

\* start_shell, lines 470-471: the ids read back are the target's
verified_always(c, pwd) == TRUE

verified(c, pwd) ==
    /\ c.uid = pwd.uid /\ c.euid = pwd.uid
    /\ c.gid = pwd.gid /\ c.egid = pwd.gid

\* start_shell, lines 445-516.  Each call either fails or reports success; a
\* call in `kept` reports success and leaves the ids as they were, which is
\* what the read-back is there to catch.
start_shell ==
    /\ lg.pc = "start_shell"
    /\ \E home, root, groups, gid, uid, exec \in BOOLEAN,
          kept \in SUBSET {"initgroups", "setgid", "setuid"} :
          LET pwd == pwdb[lg.username]
              Rc(ok) == IF ok THEN 0 ELSE -1
              chdirs == IF home THEN <<Call("chdir", 0)>>
                        ELSE <<Call("chdir", -1), Call("chdir", Rc(root))>>
              c1 == IF groups /\ "initgroups" \notin kept
                    THEN [cred EXCEPT !.groups = pwd.gid] ELSE cred
              c2 == IF groups /\ gid /\ "setgid" \notin kept
                    THEN [c1 EXCEPT !.gid = pwd.gid, !.egid = pwd.gid] ELSE c1
              c3 == IF groups /\ gid /\ uid /\ "setuid" \notin kept
                    THEN [c2 EXCEPT !.uid = pwd.uid, !.euid = pwd.uid] ELSE c2
              drops == <<Call("initgroups", Rc(groups))>>
                          \o (IF groups THEN <<Call("setgid", Rc(gid))>> ELSE <<>>)
                          \o (IF groups /\ gid THEN <<Call("setuid", Rc(uid))>> ELSE <<>>)
              fatal == <<Call("exit", 1)>>
          IN  IF ~home /\ ~root
              THEN /\ lg' = Leave(1)
                   /\ cred' = cred
                   /\ calls' = calls \o chdirs \o fatal
              ELSE IF ~(groups /\ gid /\ uid)
              THEN /\ lg' = Leave(1)
                   /\ cred' = c3
                   /\ calls' = calls \o chdirs \o drops \o fatal
              ELSE IF ~verified(c3, pwd)
              THEN /\ lg' = Leave(1)
                   /\ cred' = c3
                   /\ calls' = calls \o chdirs \o drops \o <<Call("readback", -1)>> \o fatal
              ELSE /\ cred' = c3
                   /\ IF exec
                      THEN /\ lg' = [lg EXCEPT !.pc = "shell"]
                           /\ calls' = calls \o chdirs \o drops
                                          \o <<Call("readback", 0), Call("execl", 0)>>
                      ELSE /\ lg' = Leave(1)
                           /\ calls' = calls \o chdirs \o drops
                                          \o <<Call("readback", 0), Call("execl", -1)>> \o fatal
    /\ UNCHANGED <<shadow, pwdb, env, utmp, airride, dreamland>>

\* the shadow and passwd databases tried: user `a` with every kind of stored
\* hash, with or without a passwd entry; no other user has entries
Hashes ==
    {<<"*">>, <<"!", "!">>, <<"!">>, <<"!", "$", "s", "y">>, <<>>, <<"x">>}
        \cup {<<"$", salt, digest>> : salt \in {"s", "t"}, digest \in {"x", "y", "z"}}

LoginInit ==
    /\ Booted(CfgLogin)
    /\ NoDreamland
    /\ \E sp_pwdp \in Hashes : shadow = [n \in {<<"a">>} |-> sp_pwdp]
    /\ \E ids \in {[uid |-> 1000, gid |-> 100], [uid |-> 0, gid |-> 0]} :
          pwdb \in {NoMap, [n \in {<<"a">>} |-> ids]}
    /\ lg = [pc |-> "start", attempts |-> 0, username |-> <<>>, password |-> <<>>,
             ok |-> FALSE, status |-> 0]
    /\ cred \in {NoCred, [NoCred EXCEPT !.uid = 1000, !.euid = 1000]}
    /\ env = {"LD_PRELOAD"}
    /\ utmp = <<>>
    /\ calls = <<>>

LoginNext ==
    \/ main_start
    \/ main_prompt
    \/ main_exhausted
    \/ main_password
    \/ main_authenticate
    \/ main_failed
    \/ main_session
    \/ start_shell

LoginSpec == LoginInit /\ [][LoginNext]_vars

----------------------------------------------------------------------------
(* Properties of Poyo. *)

FirstChars == {"A", "Z", "_", "a", "z"}
RestChars == FirstChars \cup {"0", "9", "-"}
Conforming(username) ==
    /\ Len(username) \in 1 .. 32
    /\ username[1] \in FirstChars
    /\ \A i \in 2 .. Len(username) : username[i] \in RestChars

\* C25: is_valid_username accepts exactly the names of 1 to 32 characters
\* whose first character is a letter or an underscore and whose other
\* characters are letters, digits, underscores or dashes; so a conforming name
\* of 32 characters is accepted, and the empty name and every name of 33
\* characters are rejected.
C25_UsernameRule ==
    lg.pc = "validated" =>
        /\ lg.valid <=> Conforming(lg.username)
        /\ Len(lg.username) \in {0, 33} => ~lg.valid

C25_Witness ==
    /\ lg.pc = "validated"
    /\ Len(lg.username) = 32
    /\ lg.valid

Did(name, n) == \E i \in DOMAIN calls : calls[i] = Call(name, n)
DroppedTo(pwd) ==
    /\ cred.uid = pwd.uid /\ cred.euid = pwd.uid
    /\ cred.gid = pwd.gid /\ cred.egid = pwd.gid

\* C21: the shell is executed only after initgroups, setgid and setuid all
\* succeeded and the real and effective uid and gid read back are the target
\* user's; when one of the three fails or the read-back differs, the process
\* exits with a non-zero status and has not called exec.
C21_ExecOnlyAfterDrop ==
    /\ lg.pc = "shell" \/ Did("execl", 0) \/ Did("execl", -1) =>
          /\ Did("initgroups", 0) /\ Did("setgid", 0) /\ Did("setuid", 0)
          /\ Did("readback", 0)
          /\ DroppedTo(pwdb[lg.username])
    /\ \/ Did("initgroups", -1) \/ Did("setgid", -1) \/ Did("setuid", -1)
       \/ Did("readback", -1)
       \/ Did("setuid", 0) /\ ~DroppedTo(pwdb[lg.username])
       => /\ lg.pc = "exit" /\ lg.status # 0
          /\ ~Did("execl", 0) /\ ~Did("execl", -1)

C21_Witness ==
    /\ lg.pc = "shell"
    /\ Did("execl", 0)
    /\ cred.euid = 1000

\* the calls of a login that matter to their order, by name
Ordered == {"clearenv", "setenv", "pututline", "updwtmp", "initgroups", "setgid",
            "setuid", "readback", "execl"}
Session == <<"clearenv", "setenv", "setenv", "setenv", "setenv", "setenv", "setenv",
             "setenv", "pututline", "updwtmp", "initgroups", "setgid", "setuid",
             "readback", "execl">>
Made ==
    LET made == SelectSeq(calls, LAMBDA c : c.call \in Ordered)
    IN  [i \in DOMAIN made |-> made[i].call]

\* C22: a successful login clears the environment, then sets every variable,
\* then writes utmp and wtmp, then calls initgroups, setgid and setuid in that
\* order, then reads the ids back, then executes the shell; at no time is a
\* variable set before the clear, and nothing is written or dropped after the
\* exec.
C22_SessionOrder ==
    /\ Len(Made) <= Len(Session)
    /\ Made = SubSeq(Session, 1, Len(Made))
    /\ lg.pc = "shell" => Made = Session

C22_Witness ==
    /\ lg.pc = "shell"
    /\ Made = Session
    /\ env = {"HOME", "USER", "LOGNAME", "SHELL", "PATH", "TERM", "PS1"}

\* C23: every turn of the login loop that ends neither in a successful
\* authentication nor at the end of input counts as an attempt, so that no
\* input gets more than MAX_ATTEMPTS prompts: whenever the loop is back at
\* its head, it has counted as many attempts as it showed banners.
C23_EveryTurnCounts ==
    lg.pc = "prompt" => lg.attempts = Prompts /\ Prompts <= MAX_ATTEMPTS

LastBanner == CHOOSE i \in DOMAIN calls :
    calls[i].call = "banner" /\ \A j \in DOMAIN calls : j > i => calls[j].call # "banner"
RECURSIVE SleptFrom(_)
SleptFrom(i) ==
    IF i > Len(calls) THEN 0
    ELSE (IF calls[i].call = "sleep" THEN calls[i].n ELSE 0) + SleptFrom(i + 1)
Incorrect == \E i \in DOMAIN calls : i > LastBanner /\ calls[i].call = "login_incorrect"

\* C24: when the k-th attempt has failed at the password, the process has slept
\* 3 * k seconds in all since the prompt of that attempt.
C24_ProgressiveDelay ==
    lg.pc = "prompt" /\ Prompts > 0 /\ Incorrect =>
        SleptFrom(LastBanner) = DELAY_AFTER_FAIL * lg.attempts

Begins(text, prefix) ==
    /\ Len(text) >= Len(prefix)
    /\ \A i \in DOMAIN prefix : text[i] = prefix[i]
\* C24, as the code has it: when the k-th attempt has failed at the password,
\* the process has slept the 3 seconds of authenticate_user and then the
\* 3 * k seconds of the loop since the prompt of that attempt, and three
\* wrong passwords end the run with a non-zero status.
C24_DelayAfterFixedDelay ==
    /\ lg.pc = "prompt" /\ Prompts > 0 /\ Incorrect =>
          /\ SleptFrom(LastBanner) = DELAY_AFTER_FAIL + DELAY_AFTER_FAIL * lg.attempts
          /\ calls[Len(calls)] = Call("sleep", DELAY_AFTER_FAIL * lg.attempts)
    /\ Did("too_many", 0) => lg.pc = "exit" /\ lg.status # 0

C24_Witness ==
    /\ lg.pc = "exit"
    /\ Did("too_many", 0)
    /\ Incorrect
    /\ SleptFrom(1) = 27
    /\ SleptFrom(LastBanner) = 12

Locked(sp_pwdp) ==
    \/ Begins(sp_pwdp, <<"*">>)
    \/ Begins(sp_pwdp, <<"!", "!">>)
    \/ Begins(sp_pwdp, <<"!">>)

\* C26: authentication fails for a user without a shadow entry; fails for
\* every password when the stored hash begins with `*`, `!!` or `!`; succeeds
\* for every password when the stored hash is empty; and otherwise succeeds
\* exactly when the hash of the password under the stored salt is the stored
\* hash.
C26_ShadowOutcome ==
    lg.pc = "authenticated" =>
        IF lg.username \notin DOMAIN shadow THEN ~lg.ok
        ELSE IF Locked(shadow[lg.username]) THEN ~lg.ok
        ELSE IF shadow[lg.username] = <<>> THEN lg.ok
        ELSE lg.ok <=> LET hash == crypt(lg.password, shadow[lg.username])
                       IN  ~hash.null /\ hash.text = shadow[lg.username]

C26_Witness ==
    /\ lg.pc = "authenticated"
    /\ lg.ok
    /\ lg.password = <<"p", "q">>
    /\ shadow[lg.username] = <<"$", "s", "x">>

Authentic(username) ==
    /\ username \in DOMAIN shadow
    /\ ~Locked(shadow[username])
    /\ \/ shadow[username] = <<>>
       \/ \E password \in Passwords : crypt(password, shadow[username]).text = shadow[username]

\* C27: a utmp/wtmp record is written and a shell executed only after
\* authenticate_user succeeded for the name entered in the same attempt; a
\* run that ends with the attempts used up or at the end of input has written
\* no record and executed nothing.
C27_SessionOnlyAfterAuth ==
    /\ utmp # <<>> \/ Did("execl", 0) \/ Did("execl", -1) =>
          /\ lg.ok
          /\ Authentic(lg.username)
          /\ calls[LastBanner].n = lg.attempts
          /\ SleptFrom(LastBanner) = 0
          /\ Len(utmp) = 1 /\ utmp[1].ut_user = lg.username
    /\ Did("too_many", 0) \/ Did("exit", 0) =>
          /\ lg.pc = "exit"
          /\ utmp = <<>>
          /\ ~Did("execl", 0) /\ ~Did("execl", -1)

C27_Witness ==
    /\ lg.pc = "shell"
    /\ lg.attempts = 2
    /\ Len(utmp) = 1

====
